---- MODULE Spec2Model ----
(***************************************************************************)
(* Two-tier API response cache of the travel bot (src/api/cache.py):       *)
(* CacheManager with its in-memory dictionary (tier 1) and the api_cache   *)
(* table reached through one SQLAlchemy session (tier 2).                  *)
(*                                                                         *)
(* Time is an integer number of minutes (the unit of cache_ttl).  Python   *)
(* values are modelled by what the code does with them: parameter          *)
(* dictionaries are sequences of <<key, value>> pairs in construction      *)
(* order, json.dumps(sort_keys=True) orders them by key and renders text,  *)
(* and a payload goes through json.dumps / json.loads on its way into and  *)
(* out of the durable tier.  hashlib.md5 is modelled as an injective       *)
(* function of the text it digests.                                        *)
(***************************************************************************)
EXTENDS Integers, Sequences, FiniteSets, TLC

VARIABLES
    now,            \* datetime.now(), in minutes
    memory_cache,   \* CacheManager._memory_cache: cache_key -> entry
    db,             \* committed rows of the api_cache table
    last,           \* the most recent call on the CacheManager and what it returned
    nput,           \* number of save_to_cache calls so far
    nticks,         \* number of clock advances so far
    session,        \* CacheManager.db: the one SQLAlchemy session, its unit of work
    handler,        \* the request handler's save_to_cache call in progress
    sweeper,        \* the cleanup thread's cleanup_expired_cache call in progress
    written,        \* history: <<key, text, expires_at>> of every save_to_cache begun
    nlp,            \* the latest call on the message handler: input, locations found, outcome
    amadeus,        \* AmadeusClient: its token, and the search_flights calls made
    chat,           \* one user's conversation with the bot: session row, handler state, replies
    scheduler       \* CacheScheduler: running flag, cleanup threads, calls made

cacheVars == <<now, memory_cache, db, last, nput, nticks>>
threadVars == <<session, handler, sweeper, written>>
botVars == <<amadeus, chat, scheduler>>
vars == <<now, memory_cache, db, last, nput, nticks,
          session, handler, sweeper, written, nlp, amadeus, chat, scheduler>>

---------------------------------------------------------------------------
(* Bounds of the model *)

MaxPuts == 2
MaxTicks == 1
MaxThreads == 3

---------------------------------------------------------------------------
(* Input domains *)

\* The providers AmadeusClient saves under, each with the cache_type it
\* passes (amadeus_client.py lines 72 and 118).
PutProviders == {"amadeus_flights", "amadeus_token"}

CacheTypeOf(provider) == IF provider = "amadeus_token" THEN "token" ELSE "flight"

\* Provider names an operator can pass to /cache_clear: the two above and
\* their common prefix.
Providers == PutProviders \cup {"amadeus"}

\* Parameter names in the order sorted() puts them.
ParamKeyOrder ==
    <<"a", "adults", "b", "client_id", "departure_date", "destination", "origin">>

\* A dict as Python keeps it: pairs in construction order, keys distinct.
\* The same two pairs built in either order, and a smaller dict.
ParamsSet ==
    {<<<<"a", 1>>, <<"b", 2>>>>, <<<<"b", 2>>, <<"a", 1>>>>, <<<<"a", 1>>>>}

\* Payloads a caller can hand to save_to_cache:
\*   "d1"  a dict of strings and numbers
\*   "tup" a dict holding a tuple (json turns it into a list)
\*   "obj" a dict holding a value json cannot serialise
\* "lst" is "tup" with the tuple replaced by a list.
\* Flight lists AmadeusClient saves: "offers" (the formatted offers of a
\* 200 answer), "mock" (the five mock flights) and "empty" (the list []).
Payloads == {"d1", "tup"}

\* What each provider's caller saves: the token entry is a dict of a
\* string and a number (amadeus_client.py lines 68-71).
PayloadsOf(provider) ==
    IF provider = "amadeus_token" THEN {"d1"} ELSE Payloads

None == "None"

---------------------------------------------------------------------------
(* json and hashing *)

Serializable(data) == data # "obj"

\* APICache.set_response_data: json.dumps(data_dict)
JsonDumps(data) ==
    CASE data = "d1"  -> "{d1}"
      [] data = "tup" -> "{r: [1, 2]}"
      [] data = "lst" -> "{r: [1, 2]}"
      [] data = "offers" -> "[offers]"
      [] data = "mock"   -> "[mock]"
      [] data = "empty"  -> "[]"
      [] OTHER        -> "TypeError"

\* APICache.get_response_data: json.loads(text) if text else None
JsonLoads(text) ==
    CASE text = "{d1}"        -> "d1"
      [] text = "{r: [1, 2]}" -> "lst"
      [] text = "[offers]"    -> "offers"
      [] text = "[mock]"      -> "mock"
      [] text = "[]"          -> "empty"
      [] OTHER                -> None

\* The pairs of a dict ordered by key (sort_keys=True).
RECURSIVE SortedFrom(_, _)
SortedFrom(params, i) ==
    IF i > Len(ParamKeyOrder) THEN <<>>
    ELSE SelectSeq(params, LAMBDA kv : kv[1] = ParamKeyOrder[i])
             \o SortedFrom(params, i + 1)

SortParams(params) == SortedFrom(params, 1)

RECURSIVE RenderPairs(_)
RenderPairs(pairs) ==
    IF pairs = <<>> THEN ""
    ELSE pairs[1][1] \o ": " \o ToString(pairs[1][2])
           \o (IF Len(pairs) > 1 THEN ", " ELSE "") \o RenderPairs(Tail(pairs))

\* json.dumps(params, sort_keys=True)
JsonDumpsSorted(params) == "{" \o RenderPairs(SortParams(params)) \o "}"

\* hashlib.md5(text).hexdigest(), taken to be injective
Md5Hex(text) == "md5" \o text

\* Variant: the key is derived from the dict in construction order.
generate_cache_key_Unsorted(provider, params) ==
    provider \o ":" \o Md5Hex("{" \o RenderPairs(params) \o "}")

\* CacheManager._generate_cache_key
generate_cache_key(provider, params) ==
    provider \o ":" \o Md5Hex(JsonDumpsSorted(params))

\* str.startswith
StartsWith(s, prefix) ==
    Len(prefix) <= Len(s) /\ SubSeq(s, 1, Len(prefix)) = prefix

\* The parameter dicts a provider is called with: the token lookup passes
\* one pair, a flight search several, built in either order.
ParamsOf(provider) ==
    IF provider = "amadeus_token" THEN {<<<<"a", 1>>>>}
    ELSE {ps \in ParamsSet : Len(ps) = 2}

\* generate_cache_key tabulated over the calls of the model.
KeyTable ==
    [p \in PutProviders, ps \in ParamsSet |-> generate_cache_key(p, ps)]

KeyOf(provider, params) == KeyTable[provider, params]

\* The keys the calls of the model derive.
CallKeys == UNION {{KeyOf(p, ps) : ps \in ParamsOf(p)} : p \in PutProviders}

\* self.cache_ttl.get(cache_type, 60)
\* Variant: a category missing from the table gets no lifetime.
TTL_NoDefault(cache_type) ==
    CASE cache_type = "flight"  -> 60
      [] cache_type = "hotel"   -> 120
      [] cache_type = "airport" -> 10080
      [] cache_type = "token"   -> 25
      [] OTHER                  -> 0

TTL(cache_type) ==
    CASE cache_type = "flight"  -> 60
      [] cache_type = "hotel"   -> 120
      [] cache_type = "airport" -> 10080
      [] cache_type = "token"   -> 25
      [] OTHER                  -> 60


---------------------------------------------------------------------------
(* Tier 1: the dictionary *)

\* Variant: the tier-1 write is left out.
MemStore_Skip(mem, cache_key, data, expires_at, ver) == mem

\* Variant: the tier-1 write keeps an entry that is already there.
MemStore_KeepOld(mem, cache_key, data, expires_at, ver) ==
    [k \in DOMAIN mem \cup {cache_key} |->
        IF k \in DOMAIN mem THEN mem[k]
        ELSE [data |-> data, expires_at |-> expires_at, ver |-> ver]]

\* self._memory_cache[cache_key] = {'data': ..., 'expires_at': ...}
\* ver is a history field: the number of the save_to_cache call the entry
\* comes from.
MemStore(mem, cache_key, data, expires_at, ver) ==
    [k \in DOMAIN mem \cup {cache_key} |->
        IF k = cache_key
        THEN [data |-> data, expires_at |-> expires_at, ver |-> ver]
        ELSE mem[k]]

\* del self._memory_cache[cache_key]
MemDel(mem, cache_key) == [k \in DOMAIN mem \ {cache_key} |-> mem[k]]

\* {k: v for k, v in items if not k.startswith(provider)}
MemDropProvider(mem, provider) ==
    [k \in {j \in DOMAIN mem : ~StartsWith(j, provider)} |-> mem[k]]

\* {k: v for k, v in items if v['expires_at'] > current_time}
MemPrune(mem, current_time) ==
    [k \in {j \in DOMAIN mem : mem[j].expires_at > current_time} |-> mem[k]]

\* Variant: tier 1 serves an entry whatever its expiry.
MemFresh_Always(entry, t) == TRUE

\* the tier-1 expiry test of get_cached_response
MemFresh(entry, t) == entry.expires_at > t

---------------------------------------------------------------------------
(* Tier 2: the api_cache table *)

\* query(APICache).filter(APICache.cache_key == cache_key)
RowsByKey(rows, cache_key) == {r \in rows : r.cache_key = cache_key}

\* query(APICache).filter(APICache.provider == provider)
RowsByProvider(rows, provider) == {r \in rows : r.provider = provider}

\* query(APICache).filter(APICache.expires_at < datetime.now())
RowsExpired(rows, t) == {r \in rows : r.expires_at < t}

\* Variant: tier 2 serves a row whatever its expiry.
RowFresh_Always(row, t) == TRUE

\* the tier-2 expiry test of get_cached_response
RowFresh(row, t) == row.expires_at > t

\* Variant: the save adds a row without looking for an existing one.
Upsert_AlwaysInsert(rows, cache_key, provider, data, expires_at, ver) ==
    rows \cup {[cache_key |-> cache_key, provider |-> provider,
                response_data |-> JsonDumps(data),
                expires_at |-> expires_at, ver |-> ver]}

\* lines 134-152 of save_to_cache: update the row found by .first(), or add
\* a new one, then commit
Upsert(rows, cache_key, provider, data, expires_at, ver) ==
    LET found == RowsByKey(rows, cache_key) IN
    IF found # {}
    THEN LET cache_entry == CHOOSE r \in found : TRUE IN
         (rows \ {cache_entry}) \cup
             {[cache_entry EXCEPT !.response_data = JsonDumps(data),
                                  !.expires_at = expires_at,
                                  !.ver = ver]}
    ELSE rows \cup {[cache_key |-> cache_key, provider |-> provider,
                     response_data |-> JsonDumps(data),
                     expires_at |-> expires_at, ver |-> ver]}

---------------------------------------------------------------------------
(* State after construction *)

\* Two dicts with the same (key, value) pairs.
SamePairs(ps1, ps2) ==
    {ps1[i] : i \in 1..Len(ps1)} = {ps2[i] : i \in 1..Len(ps2)}

\* The record of a call: its arguments, what it returned (result, count)
\* and the branch it took (note, evicted).  A lookup that comes right after
\* a successful save for the same provider and the same pairs also records
\* that save: prior tells whether the dict was built in the same order, and
\* data and expires_at are the saved payload and its expiry.
Call(op, provider, params, data, cache_type, expires_at, fault, result, count, note, evicted, prior) ==
    [op |-> op, provider |-> provider, params |-> params, data |-> data,
     cache_type |-> cache_type, expires_at |-> expires_at, fault |-> fault,
     result |-> result, count |-> count, note |-> note, evicted |-> evicted,
     prior |-> prior]

NoCall ==
    Call("init", None, <<>>, None, None, 0, "none", None, 0, "", FALSE, "")

\* A session with nothing pending: no new or modified object, no DELETE
\* issued in the open transaction.
CleanSession == [objs |-> <<>>, deleted |-> {}]

IdleHandler ==
    [pc |-> "idle", cache_key |-> None, provider |-> None, data |-> None,
     expires_at |-> 0, attached |-> FALSE]

IdleSweeper == [pc |-> "idle", deleted |-> 0, pruned |-> <<>>]

\* No message has been processed yet.
NoInfo == [op |-> "", text |-> "", today |-> <<>>, locations |-> <<>>, result |-> None]

\* No search_flights call: nothing returned, at no time.
NoSearch ==
    [route |-> <<>>, at |-> -1, returned |-> None, token_request |-> FALSE,
     api_call |-> FALSE]

\* No list fetched for a route.
NoFetch == [at |-> -1, returned |-> None]

\* AmadeusClient.__init__ (token None, token_expiry 0), and no call made.
\* History: call is the latest search_flights call, fetched the list each
\* route's latest fetch returned and when, and before the value of fetched
\* for the route of the latest call when that call began.
NewClient ==
    [token |-> None, token_expiry |-> 0, call |-> NoSearch, before |-> NoFetch,
     fetched |-> <<>>]

\* No row of user_sessions for the user.
NoSession == [type |-> None, flights |-> None, search_info |-> <<>>, expires_at |-> 0]

\* No entry of user_hotel_data for the user.
NoHotels == [hotels |-> 0, search_info |-> <<>>]

\* What the bot did with a message: the function that handled it, the kind
\* of reply, how many numbered results the reply showed, the search they
\* come from, and the position confirmed by a selection.
Reply(text, handled_by, reply, shown, search, selected) ==
    [text |-> text, handled_by |-> handled_by, reply |-> reply, shown |-> shown,
     search |-> search, selected |-> selected]

NoReply == Reply("", "", "", 0, <<>>, 0)

\* A user who has sent nothing yet: no session row, no entry of
\* user_hotel_data, empty context.user_data.  History: last is the latest
\* message and what the bot did with it, prev the one before.
NewChat ==
    [session |-> NoSession, user_hotel_data |-> NoHotels,
     pending_destination |-> None, pending_destination_code |-> None,
     pending_date |-> None, last |-> NoReply, prev |-> NoReply]

\* No call of the scheduler yet.
NoSchedulerCall == [op |-> "", was_running |-> FALSE, created |-> FALSE]

\* CacheScheduler.__init__: running False, cleanup_thread None (0).
\* threads are the cleanup threads started so far, caller the position of
\* the thread that calls start and stop.  History: call is the latest call,
\* and each thread records whether a stop_scheduler that joined it has
\* returned (stopped) and whether it has called cleanup_cache since (late).
NewScheduler ==
    [running |-> FALSE, cleanup_thread |-> 0, threads |-> <<>>, caller |-> "idle",
     call |-> NoSchedulerCall]

Init ==
    /\ now = 0
    /\ memory_cache = <<>>
    /\ db = {}
    /\ last = NoCall
    /\ nput = 0
    /\ nticks = 0
    /\ session = CleanSession
    /\ handler = IdleHandler
    /\ sweeper = IdleSweeper
    /\ written = {}
    /\ nlp = NoInfo
    /\ amadeus = NewClient
    /\ chat = NewChat
    /\ scheduler = NewScheduler

---------------------------------------------------------------------------
(* Operations, each called from the bot's single event loop *)

\* Variant: the fault leaves the call as an exception.
Handled_Reraise(op) == "Raised"

\* What a call returns once its except block has caught a durable fault:
\* save_to_cache returns False (line 159), get_cached_response falls
\* through to return None (line 104).
Handled(op) == IF op = "put" THEN "False" ELSE None

\* CacheManager.save_to_cache.  fault = "commit": the durable write raises.
save_to_cache(provider, params, response_data, cache_type, fault) ==
    LET cache_key == KeyOf(provider, params)
        ttl_minutes == TTL(cache_type)
        expires_at == now + ttl_minutes
        raised == fault # "none" \/ ~Serializable(response_data)
    IN  /\ nput < MaxPuts
        /\ nput' = nput + 1
        /\ memory_cache' =
               MemStore(memory_cache, cache_key, response_data, expires_at, nput + 1)
        /\ db' = IF raised THEN db
                 ELSE Upsert(db, cache_key, provider, response_data,
                             expires_at, nput + 1)
        /\ last' = Call("put", provider, params, response_data, cache_type,
                        expires_at, IF raised THEN "commit" ELSE "none",
                        IF raised THEN Handled("put") ELSE "True", 0,
                        IF raised THEN "raise"
                        ELSE IF RowsByKey(db, cache_key) # {} THEN "update"
                        ELSE "insert",
                        FALSE, "")
        /\ UNCHANGED <<now, nticks>>
        /\ UNCHANGED <<threadVars, nlp, botVars>>

\* CacheManager.get_cached_response.  fault = "query": the durable lookup raises.
get_cached_response(provider, params, fault) ==
    LET cache_key == KeyOf(provider, params)
        inMem == cache_key \in DOMAIN memory_cache
        hit == inMem /\ MemFresh(memory_cache[cache_key], now)
        evicted == inMem /\ ~hit
        mem1 == IF evicted THEN MemDel(memory_cache, cache_key)
                ELSE memory_cache
        found == RowsByKey(db, cache_key)
        prior == IF /\ last.op = "put"
                    /\ last.result = "True"
                    /\ last.provider = provider
                    /\ SamePairs(last.params, params)
                 THEN (IF last.params = params THEN "same" ELSE "reordered")
                 ELSE ""
        call(res, f, note) ==
            Call("get", provider, params,
                 IF prior # "" THEN last.data ELSE None, None,
                 IF prior # "" THEN last.expires_at ELSE 0,
                 f, res, 0, note, evicted, prior)
    IN  /\ hit => fault = "none"
        /\ IF hit
           THEN /\ last' = call(memory_cache[cache_key].data, "none", "memory")
                /\ UNCHANGED <<memory_cache, db>>
           ELSE IF fault # "none"
           THEN /\ memory_cache' = mem1
                /\ last' = call(Handled("get"), "query", "error")
                /\ UNCHANGED db
           ELSE IF found = {}
           THEN /\ memory_cache' = mem1
                /\ last' = call(None, "none", "miss")
                /\ UNCHANGED db
           ELSE LET cache_entry == CHOOSE r \in found : TRUE IN
                IF RowFresh(cache_entry, now)
                THEN LET response_data == JsonLoads(cache_entry.response_data) IN
                     /\ memory_cache' = MemStore(mem1, cache_key, response_data,
                                                 cache_entry.expires_at,
                                                 cache_entry.ver)
                     /\ last' = call(response_data, "none", "database")
                     /\ UNCHANGED db
                ELSE /\ memory_cache' = mem1
                     /\ db' = db \ {cache_entry}
                     /\ last' = call(None, "none", "expired")
        /\ UNCHANGED <<now, nput, nticks>>
        /\ UNCHANGED <<threadVars, nlp, botVars>>

\* Variant: the provider branch is tested before the key branch.
invalidate_cache_ProviderFirst(provider, cache_key, fault) ==
    LET hit == IF provider # None THEN RowsByProvider(db, provider)
               ELSE IF cache_key # None THEN RowsByKey(db, cache_key)
               ELSE db
        mem1 == IF provider # None THEN MemDropProvider(memory_cache, provider)
                ELSE IF cache_key # None THEN MemDel(memory_cache, cache_key)
                ELSE <<>>
    IN  /\ memory_cache' = IF fault = "query" THEN memory_cache ELSE mem1
        /\ db' = IF fault = "none" THEN db \ hit ELSE db
        /\ last' = Call("invalidate", None, <<>>, None, None, 0, fault, None,
                        IF fault = "none" THEN Cardinality(hit) ELSE 0,
                        IF cache_key # None /\ provider # None THEN "both" ELSE "",
                        FALSE, "")
        /\ UNCHANGED <<now, nput, nticks>>
        /\ UNCHANGED <<threadVars, nlp, botVars>>

\* CacheManager.invalidate_cache.  provider and cache_key may be None.
\* fault = "query": the DELETE raises; fault = "commit": the commit raises.
invalidate_cache(provider, cache_key, fault) ==
    LET hit == IF cache_key # None THEN RowsByKey(db, cache_key)
               ELSE IF provider # None THEN RowsByProvider(db, provider)
               ELSE db
        mem1 == IF cache_key # None THEN MemDel(memory_cache, cache_key)
                ELSE IF provider # None THEN MemDropProvider(memory_cache, provider)
                ELSE <<>>
    IN  /\ memory_cache' = IF fault = "query" THEN memory_cache ELSE mem1
        /\ db' = IF fault = "none" THEN db \ hit ELSE db
        /\ last' = Call("invalidate", None, <<>>, None, None, 0, fault, None,
                        IF fault = "none" THEN Cardinality(hit) ELSE 0,
                        IF cache_key # None /\ provider # None THEN "both" ELSE "",
                        FALSE, "")
        /\ UNCHANGED <<now, nput, nticks>>
        /\ UNCHANGED <<threadVars, nlp, botVars>>

\* CacheManager.cleanup_expired_cache.  fault = "query": the DELETE or its
\* commit raises.  Both datetime.now() reads fall in the same minute.
cleanup_expired_cache(fault) ==
    LET expired == RowsExpired(db, now)
        current_time == now
    IN  /\ db' = IF fault = "none" THEN db \ expired ELSE db
        /\ memory_cache' = IF fault = "none"
                           THEN MemPrune(memory_cache, current_time)
                           ELSE memory_cache
        /\ last' = Call("sweep", None, <<>>, None, None, 0, fault, None,
                        IF fault = "none" THEN Cardinality(expired) ELSE 0,
                        "", FALSE, "")
        /\ UNCHANGED <<now, nput, nticks>>
        /\ UNCHANGED <<threadVars, nlp, botVars>>

\* The clock advances between calls.
Tick(d) ==
    /\ nticks < MaxTicks
    /\ nticks' = nticks + 1
    /\ now' = now + d
    /\ UNCHANGED <<memory_cache, db, last, nput>>
    /\ UNCHANGED <<threadVars, nlp, botVars>>

Put ==
    \E provider \in PutProviders, fault \in {"none", "commit"} :
      \E params \in ParamsOf(provider), data \in PayloadsOf(provider) :
        save_to_cache(provider, params, data, CacheTypeOf(provider), fault)

Get ==
    \E provider \in PutProviders, fault \in {"none", "query"} :
      \E params \in ParamsOf(provider) :
        get_cached_response(provider, params, fault)

\* /cache_clear passes a provider or nothing; a key is passed alone or
\* together with a provider (the faults of that call are those of the
\* call with the key alone).
Invalidate ==
    \E provider \in Providers \cup {None}, cache_key \in CallKeys \cup {None},
       fault \in {"none", "query", "commit"} :
        /\ cache_key # None => provider \in {None, "amadeus_flights"}
        /\ (cache_key # None /\ provider # None) => fault = "none"
        /\ invalidate_cache(provider, cache_key, fault)

Sweep == \E fault \in {"none", "query"} : cleanup_expired_cache(fault)

\* Expiry times held in either tier.
Expiries ==
    {memory_cache[k].expires_at : k \in DOMAIN memory_cache} \cup
    {r.expires_at : r \in db}

\* The clock moves by a minute, or up to the expiry of an entry, or to the
\* minute after it.
TickSteps ==
    ({1} \cup {e + j - now : e \in {x \in Expiries : x + 1 > now}, j \in {0, 1}}) \ {0}

Advance == \E d \in TickSteps : Tick(d)

Next == Put \/ Get \/ Invalidate \/ Sweep \/ Advance

Spec == Init /\ [][Next]_vars

---------------------------------------------------------------------------
(* Steps of the single-threaded specification, recognised from the call    *)
(* they record                                                             *)

KeyOfCall(c) == KeyOf(c.provider, c.params)

PutStep == last'.op = "put" /\ nput' = nput + 1

GetStep == last'.op = "get" /\ now' = now /\ nput' = nput

\* A lookup for the (provider, params) of the save that `last` records.
GetAfterPut(ps) ==
    /\ last.op = "put"
    /\ last.result = "True"
    /\ GetStep
    /\ last'.provider = last.provider
    /\ last'.params = ps

MemHas(mem, k) == k \in DOMAIN mem

---------------------------------------------------------------------------
(* C1: a save that reports success, followed by a lookup with the same     *)
(* provider and parameters before the entry's expiry and with no other     *)
(* call in between, returns the saved payload unchanged (the very value,   *)
(* not its json round trip).                                               *)

C1_PutThenGet ==
    [][ (GetAfterPut(last.params) /\ now < last.expires_at)
            => last'.result = last.data ]_vars

C1_Witness ==
    /\ last.op = "get"
    /\ last.prior = "same"
    /\ last.data = "tup"
    /\ last.result = "tup"
    /\ last.note = "memory"

(* C2: the cache key depends on the provider and the set of parameter      *)
(* pairs only: a save under one construction order followed by a lookup    *)
(* under any order of the same pairs derives the same key and returns the  *)
(* saved payload.                                                          *)

C2_KeyCanonical ==
    [][ \A ps \in ParamsSet :
          (GetAfterPut(ps) /\ SamePairs(ps, last.params) /\ now < last.expires_at)
            => /\ KeyOfCall(last') = KeyOfCall(last)
               /\ last'.result = last.data ]_vars

C2_Witness ==
    /\ last.op = "get"
    /\ last.prior = "reordered"
    /\ last.data # None
    /\ last.result = last.data

(* C3: after a successful save, a lookup for the same provider and         *)
(* parameters made once the clock is past the entry's expiry (more than    *)
(* the category's TTL after the save), the durable lookup not faulting,    *)
(* returns absent and leaves the entry in neither tier.                    *)

C3_ExpiredGone ==
    [][ (GetAfterPut(last.params) /\ last'.fault = "none" /\ now > last.expires_at)
            => /\ last'.result = None
               /\ ~MemHas(memory_cache', KeyOfCall(last'))
               /\ RowsByKey(db', KeyOfCall(last')) = {} ]_vars

C3_Witness ==
    /\ last.op = "get"
    /\ last.prior = "same"
    /\ now > last.expires_at
    /\ last.result = None
    /\ last.evicted
    /\ last.note = "expired"

(* C4: whatever calls and clock advances came before, a lookup returns a   *)
(* payload only from an entry whose expires_at is strictly later than the  *)
(* time of the lookup; an expired tier-1 entry is evicted, and when the    *)
(* lookup reaches tier 2 an expired row is deleted and not returned.       *)

C4_NeverServesExpired ==
    [][ GetStep =>
          LET key == KeyOfCall(last')
              memHit == MemHas(memory_cache, key)
                          /\ memory_cache[key].expires_at > now
          IN  /\ last'.result # None =>
                   \/ memHit /\ last'.result = memory_cache[key].data
                   \/ \E r \in RowsByKey(db, key) :
                        /\ r.expires_at > now
                        /\ last'.result = JsonLoads(r.response_data)
              /\ (MemHas(memory_cache, key) /\ ~memHit) =>
                   \/ ~MemHas(memory_cache', key)
                   \/ memory_cache'[key].expires_at > now
              /\ (~memHit /\ last'.fault = "none") =>
                   \A r \in RowsByKey(db, key) :
                       r.expires_at <= now => (r \notin db' /\ last'.result = None)
    ]_vars

C4_Witness ==
    /\ last.op = "get"
    /\ last.prior = ""
    /\ last.evicted
    /\ last.note = "expired"
    /\ last.result = None
    /\ ~MemHas(memory_cache, KeyOfCall(last))
    /\ RowsByKey(db, KeyOfCall(last)) = {}

(* C5: for a key present in both tiers the tier-1 entry comes from the     *)
(* same save as the tier-2 row, and then has its payload and expiry, or    *)
(* from a more recent save; this holds with durable faults too.            *)

C5_MemoryNotStaler ==
    \A k \in DOMAIN memory_cache :
        \A r \in RowsByKey(db, k) :
            /\ memory_cache[k].ver >= r.ver
            /\ memory_cache[k].ver = r.ver =>
                 /\ JsonDumps(memory_cache[k].data) = r.response_data
                 /\ memory_cache[k].expires_at = r.expires_at

C5_Witness ==
    \E k \in DOMAIN memory_cache :
        \E r \in RowsByKey(db, k) :
            /\ memory_cache[k].ver > r.ver
            /\ memory_cache[k].expires_at > r.expires_at

(* C6: a save that reports failure leaves both tiers as they were before   *)
(* the call.                                                               *)

C6_AllOrNothing ==
    [][ (PutStep /\ last'.result = "False")
            => (memory_cache' = memory_cache /\ db' = db) ]_vars

(* C8: invalidate with only a provider p removes every entry of p from     *)
(* both tiers and leaves the entries of every other provider unchanged in  *)
(* both tiers, also when p is a prefix of the other provider's name.       *)

C8_ProviderScope ==
    [][ \A p \in Providers :
          invalidate_cache(p, None, "none") =>
            /\ RowsByProvider(db', p) = {}
            /\ \A q \in PutProviders, ps \in ParamsSet :
                 LET k == KeyOf(q, ps) IN
                 IF q = p
                 THEN ~MemHas(memory_cache', k)
                 ELSE /\ MemHas(memory_cache, k) =>
                           (MemHas(memory_cache', k)
                              /\ memory_cache'[k] = memory_cache[k])
                      /\ RowsByProvider(db', q) = RowsByProvider(db, q)
    ]_vars

(* C9: the sweep removes from the durable tier exactly the rows whose      *)
(* expires_at is earlier than the call time and from tier 1 the same       *)
(* expired entries; every other entry stays in both tiers unchanged, and   *)
(* the returned count is the number of durable rows removed.               *)

C9_SweepExact ==
    [][ cleanup_expired_cache("none") =>
          /\ db' = {r \in db : ~(r.expires_at < now)}
          /\ DOMAIN memory_cache' =
               {k \in DOMAIN memory_cache : ~(memory_cache[k].expires_at < now)}
          /\ \A k \in DOMAIN memory_cache' : memory_cache'[k] = memory_cache[k]
          /\ last'.count = Cardinality(db \ db')
    ]_vars

(* C10: the durable tier never holds two rows for one key, and after a     *)
(* successful save both tiers hold that save's payload with the expiry     *)
(* computed at that save, also when the key was already stored.            *)

C10_Upsert ==
    [][ /\ \A k \in CallKeys : Cardinality(RowsByKey(db', k)) <= 1
        /\ (PutStep /\ last'.result = "True") =>
             LET key == KeyOfCall(last')
                 expires_at == now + TTL(last'.cache_type)
             IN  /\ MemHas(memory_cache', key)
                 /\ memory_cache'[key].data = last'.data
                 /\ memory_cache'[key].expires_at = expires_at
                 /\ RowsByKey(db', key) # {}
                 /\ \A r \in RowsByKey(db', key) :
                      /\ r.response_data = JsonDumps(last'.data)
                      /\ r.expires_at = expires_at
    ]_vars

C10_Witness ==
    /\ last.op = "put"
    /\ last.result = "True"
    /\ last.note = "update"
    /\ nput = 2
    /\ \E r \in RowsByKey(db, KeyOfCall(last)) :
         /\ r.ver = 2
         /\ r.expires_at = last.expires_at
         /\ r.expires_at > TTL(last.cache_type)

---------------------------------------------------------------------------
(* The cleanup thread (CacheScheduler._cleanup_loop) running               *)
(* cleanup_expired_cache while the event loop runs save_to_cache.  Both    *)
(* use the singleton CacheManager, so the same dictionary and the same     *)
(* session, with no lock: a thread switch can fall between any two         *)
(* statements.  The session keeps a unit of work: objects added or         *)
(* modified since the last flush (objs) and the DELETEs issued in the open *)
(* transaction (deleted); commit() flushes and commits all of it, whoever  *)
(* calls it, and close() discards all of it.                               *)

\* Rows the open transaction sees: committed rows less those it deleted.
Visible(sess, rows) == {r \in rows : r.cache_key \notin sess.deleted}

\* session.commit(): flush the unit of work, then commit the transaction.
Flush(sess, rows) ==
    LET kept == Visible(sess, rows)
        keys == DOMAIN sess.objs
        untouched == {r \in kept : r.cache_key \notin keys}
        written_rows ==
            {[cache_key |-> k, provider |-> sess.objs[k].provider,
              response_data |-> sess.objs[k].response_data,
              expires_at |-> sess.objs[k].expires_at,
              ver |-> sess.objs[k].ver] :
                k \in {j \in keys : sess.objs[j].kind = "new"
                                      \/ RowsByKey(kept, j) # {}}}
    IN  untouched \cup written_rows

\* The session's object for a key, marked modified: its pending state if it
\* has one, else the state of its row.
Loaded(sess, rows, cache_key) ==
    IF cache_key \in DOMAIN sess.objs THEN sess.objs[cache_key]
    ELSE LET r == CHOOSE x \in RowsByKey(rows, cache_key) : TRUE IN
         [kind |-> "dirty", provider |-> r.provider,
          response_data |-> r.response_data, expires_at |-> r.expires_at,
          ver |-> r.ver]

SetObj(sess, cache_key, obj) ==
    [sess EXCEPT !.objs =
        [k \in DOMAIN sess.objs \cup {cache_key} |->
            IF k = cache_key THEN obj ELSE sess.objs[k]]]

\* save_to_cache lines 120-131: key, expiry, tier-1 write.
HandlerBegin(provider, params, response_data) ==
    LET cache_key == KeyOf(provider, params)
        expires_at == now + TTL(CacheTypeOf(provider))
    IN  /\ handler.pc = "idle"
        /\ nput < MaxPuts
        /\ nput' = nput + 1
        /\ memory_cache' =
               MemStore(memory_cache, cache_key, response_data, expires_at, nput + 1)
        /\ handler' = [pc |-> "query", cache_key |-> cache_key,
                       provider |-> provider, data |-> response_data,
                       expires_at |-> expires_at, attached |-> FALSE]
        /\ written' = written \cup
                        {<<cache_key, JsonDumps(response_data), expires_at>>}
        /\ UNCHANGED <<botVars, nlp, now, db, last, nticks, session, sweeper>>

\* lines 134-138: .first() and the branch on it.
HandlerQuery ==
    /\ handler.pc = "query"
    /\ LET found == RowsByKey(Visible(session, db), handler.cache_key) IN
       handler' = [handler EXCEPT !.pc = IF found # {} THEN "set_data" ELSE "add",
                                  !.attached = found # {}]
    /\ UNCHANGED <<botVars, nlp, cacheVars, session, sweeper, written>>

\* line 140: cache_entry.set_response_data(response_data)
HandlerSetData ==
    /\ handler.pc = "set_data"
    /\ handler' = [handler EXCEPT !.pc = "set_exp"]
    /\ session' =
         IF handler.attached /\ RowsByKey(db, handler.cache_key) # {}
         THEN SetObj(session, handler.cache_key,
                     [Loaded(session, db, handler.cache_key)
                        EXCEPT !.response_data = JsonDumps(handler.data),
                               !.ver = nput])
         ELSE session
    /\ UNCHANGED <<botVars, nlp, cacheVars, sweeper, written>>

\* line 141: cache_entry.expires_at = expires_at
HandlerSetExpiry ==
    /\ handler.pc = "set_exp"
    /\ handler' = [handler EXCEPT !.pc = "commit"]
    /\ session' =
         IF handler.attached /\ RowsByKey(db, handler.cache_key) # {}
         THEN SetObj(session, handler.cache_key,
                     [Loaded(session, db, handler.cache_key)
                        EXCEPT !.expires_at = handler.expires_at])
         ELSE session
    /\ UNCHANGED <<botVars, nlp, cacheVars, sweeper, written>>

\* lines 144-150: a new APICache, filled in, then self.db.add
HandlerAdd ==
    /\ handler.pc = "add"
    /\ handler' = [handler EXCEPT !.pc = "commit", !.attached = TRUE]
    /\ session' = SetObj(session, handler.cache_key,
                         [kind |-> "new", provider |-> handler.provider,
                          response_data |-> JsonDumps(handler.data),
                          expires_at |-> handler.expires_at, ver |-> nput])
    /\ UNCHANGED <<botVars, nlp, cacheVars, sweeper, written>>

\* line 152: self.db.commit()
HandlerCommit ==
    /\ handler.pc = "commit"
    /\ handler' = [handler EXCEPT !.pc = "close"]
    /\ db' = Flush(session, db)
    /\ session' = CleanSession
    /\ UNCHANGED <<botVars, nlp, now, memory_cache, last, nput, nticks, sweeper, written>>

\* line 161: self.db.close()
HandlerClose ==
    /\ handler.pc = "close"
    /\ handler' = IdleHandler
    /\ session' = CleanSession
    /\ UNCHANGED <<botVars, nlp, cacheVars, sweeper, written>>

\* cleanup_expired_cache lines 221-223: the bulk DELETE, which also drops
\* the matched objects from the session.
SweeperDelete ==
    LET expired == RowsExpired(Visible(session, db), now)
        keys == {r.cache_key : r \in expired}
    IN  /\ sweeper.pc = "idle"
        /\ sweeper' = [sweeper EXCEPT !.pc = "commit",
                                      !.deleted = Cardinality(expired)]
        /\ session' =
             [objs |-> [k \in DOMAIN session.objs \ keys |-> session.objs[k]],
              deleted |-> session.deleted \cup keys]
        /\ handler' = [handler EXCEPT
                         !.attached = handler.attached
                                        /\ handler.cache_key \notin keys]
        /\ UNCHANGED <<botVars, nlp, cacheVars, written>>

\* line 225: self.db.commit()
SweeperCommit ==
    /\ sweeper.pc = "commit"
    /\ sweeper' = [sweeper EXCEPT !.pc = "snapshot"]
    /\ db' = Flush(session, db)
    /\ session' = CleanSession
    /\ UNCHANGED <<botVars, nlp, now, memory_cache, last, nput, nticks, handler, written>>

\* lines 231-235: the dict comprehension builds the pruned dictionary
SweeperSnapshot ==
    /\ sweeper.pc = "snapshot"
    /\ sweeper' = [sweeper EXCEPT !.pc = "assign",
                                  !.pruned = MemPrune(memory_cache, now)]
    /\ UNCHANGED <<botVars, nlp, cacheVars, session, handler, written>>

\* line 232: self._memory_cache is rebound to it
SweeperAssign ==
    /\ sweeper.pc = "assign"
    /\ sweeper' = [sweeper EXCEPT !.pc = "close", !.pruned = <<>>]
    /\ memory_cache' = sweeper.pruned
    /\ UNCHANGED <<botVars, nlp, now, db, last, nput, nticks, session, handler, written>>

\* line 244: self.db.close(), which detaches every object of the session
SweeperClose ==
    /\ sweeper.pc = "close"
    /\ sweeper' = IdleSweeper
    /\ session' = CleanSession
    /\ handler' = [handler EXCEPT !.attached = FALSE]
    /\ UNCHANGED <<botVars, nlp, cacheVars, written>>

HandlerPut ==
    \E provider \in PutProviders :
      \E params \in ParamsOf(provider), data \in PayloadsOf(provider) :
        HandlerBegin(provider, params, data)

NextThreads ==
    \/ HandlerPut
    \/ HandlerQuery
    \/ HandlerSetData
    \/ HandlerSetExpiry
    \/ HandlerAdd
    \/ HandlerCommit
    \/ HandlerClose
    \/ SweeperDelete
    \/ SweeperCommit
    \/ SweeperSnapshot
    \/ SweeperAssign
    \/ SweeperClose
    \/ Advance

SpecThreads == Init /\ [][NextThreads]_vars

(* C7: with the cleanup thread running beside the handler, every save      *)
(* takes effect as one unit: a committed row always carries the payload    *)
(* and the expires_at of one and the same save.                            *)

C7_AtomicSave ==
    \A r \in db : <<r.cache_key, r.response_data, r.expires_at>> \in written

(* C12: a durable fault never leaves the cache as an exception: a lookup    *)
(* whose durable query faults returns absent, and a save whose durable      *)
(* write faults returns False.                                              *)

C12_FaultsContained ==
    [][ /\ (PutStep /\ last'.fault # "none") => last'.result = "False"
        /\ (GetStep /\ last'.fault # "none") => last'.result = None
    ]_vars

C12_Witness ==
    /\ last.op = "get"
    /\ last.fault = "query"
    /\ last.result = None
    /\ \E r \in RowsByKey(db, KeyOfCall(last)) : r.expires_at > now

(* C13: invalidate given a key and a provider removes that key's entry      *)
(* from both tiers and nothing else, whatever else the provider holds;      *)
(* invalidate with no arguments leaves both tiers empty; the number every   *)
(* call returns is the number of rows it removed from the durable tier.     *)

C13_KeyWinsAndCount ==
    [][ (last'.op = "invalidate" /\ now' = now) =>
          /\ last'.note = "both" =>
               \A p \in PutProviders, k \in CallKeys :
                 invalidate_cache(p, k, "none") =>
                   /\ db' = db \ RowsByKey(db, k)
                   /\ DOMAIN memory_cache' = DOMAIN memory_cache \ {k}
                   /\ \A m \in DOMAIN memory_cache' :
                        memory_cache'[m] = memory_cache[m]
          /\ invalidate_cache(None, None, "none") =>
               (db' = {} /\ DOMAIN memory_cache' = {})
          /\ last'.count = Cardinality(db \ db')
    ]_vars

\* The token entry was removed by key while the provider given was
\* amadeus_flights, whose entry is still in both tiers.
C13_Witness ==
    /\ last.op = "invalidate"
    /\ last.note = "both"
    /\ last.fault = "none"
    /\ last.count = 1
    /\ \E k \in DOMAIN memory_cache : RowsByProvider(RowsByKey(db, k), "amadeus_flights") # {}
    /\ RowsByProvider(db, "amadeus_token") = {}
    /\ \A k \in DOMAIN memory_cache : RowsByKey(db, k) # {}

---------------------------------------------------------------------------
(* Saves under every category, through the module-level save_cache          *)
(* (cache.py lines 329-332), which passes any cache_type on                 *)

\* The four categories of cache_ttl and one that is not in the table.
CacheTypes == {"flight", "hotel", "airport", "token", "car"}

PutCategory ==
    \E provider \in PutProviders, cache_type \in CacheTypes,
       fault \in {"none", "commit"} :
      \E params \in ParamsOf(provider), data \in PayloadsOf(provider) :
        save_to_cache(provider, params, data, cache_type, fault)

NextCategories == PutCategory \/ Advance

SpecCategories == Init /\ [][NextCategories]_vars

(* C11: a save sets expires_at to the call time plus 60 minutes for         *)
(* flight, 120 for hotel, 10080 for airport, 25 for token and 60 for a      *)
(* category that is not in the table, in both tiers, and a category that    *)
(* is not in the table does not make the save fail.                         *)

C11_ExpiryTable ==
    [][ PutStep =>
          LET c == last'.cache_type
              minutes == CASE c = "flight"  -> 60
                           [] c = "hotel"   -> 120
                           [] c = "airport" -> 10080
                           [] c = "token"   -> 25
                           [] OTHER         -> 60
              key == KeyOfCall(last')
          IN  /\ last'.expires_at = now + minutes
              /\ MemHas(memory_cache', key)
              /\ memory_cache'[key].expires_at = now + minutes
              /\ last'.fault = "none" =>
                    /\ last'.result = "True"
                    /\ RowsByKey(db', key) # {}
                    /\ \A r \in RowsByKey(db', key) : r.expires_at = now + minutes
    ]_vars

C11_Witness ==
    /\ last.op = "put"
    /\ last.cache_type = "car"
    /\ last.result = "True"
    /\ now > 0
    /\ last.expires_at = now + 60
    /\ \E r \in RowsByKey(db, KeyOfCall(last)) : r.expires_at = now + 60

---------------------------------------------------------------------------
(* Text: the operations of Python's str, re, datetime and difflib that      *)
(* nlp_processor.py calls, each computed as the library computes it         *)

\* string.ascii_lowercase, string.ascii_uppercase, string.digits
LowerLetters == "abcdefghijklmnopqrstuvwxyz"

UpperLetters == "ABCDEFGHIJKLMNOPQRSTUVWXYZ"

Digits == "0123456789"

\* s[i - 1] as a string of one character
Char(s, i) == SubSeq(s, i, i)

\* min(S)
MinOf(S) == CHOOSE x \in S : \A y \in S : x <= y

\* The least element of a set of positions, 0 for the empty set
FirstOf(S) == IF S = {} THEN 0 ELSE MinOf(S)

\* re.findall(pattern, text)[0] where S holds the positions at which the
\* pattern matches and G the groups of the match at a position; none when
\* there is no match
FirstMatch(S, none, G(_)) == IF S = {} THEN none ELSE G(MinOf(S))

\* The 1-based position of character c in alphabet, 0 when it is not there.
IndexIn(alphabet, c) == FirstOf({i \in 1..Len(alphabet) : Char(alphabet, i) = c})

\* str.lower() of the characters lo..hi of s, by halves
RECURSIVE LowerRange(_, _, _)
LowerRange(s, lo, hi) ==
    IF lo > hi THEN ""
    ELSE IF lo = hi
         THEN (IF IndexIn(UpperLetters, Char(s, lo)) = 0 THEN Char(s, lo)
               ELSE Char(LowerLetters, IndexIn(UpperLetters, Char(s, lo))))
    ELSE LowerRange(s, lo, (lo + hi) \div 2) \o LowerRange(s, ((lo + hi) \div 2) + 1, hi)

\* str.lower()
Lower(s) == LowerRange(s, 1, Len(s))

\* str.strip(), for the blanks a message can hold
RECURSIVE Strip(_)
Strip(s) ==
    IF s = "" THEN ""
    ELSE IF Char(s, 1) = " " THEN Strip(SubSeq(s, 2, Len(s)))
    ELSE IF Char(s, Len(s)) = " " THEN Strip(SubSeq(s, 1, Len(s) - 1))
    ELSE s

\* str.find(sub), 1-based; 0 when sub does not occur
Find(s, sub) ==
    FirstOf({i \in 1..(Len(s) - Len(sub) + 1) : SubSeq(s, i, i + Len(sub) - 1) = sub})

\* sub in s
Contains(s, sub) == Find(s, sub) # 0

\* s.replace(sub, ''), the first occurrence of sub being at position i
RECURSIVE RemoveFrom(_, _, _)
RemoveFrom(s, sub, i) ==
    IF i = 0 THEN s
    ELSE SubSeq(s, 1, i - 1)
            \o RemoveFrom(SubSeq(s, i + Len(sub), Len(s)), sub,
                          Find(SubSeq(s, i + Len(sub), Len(s)), sub))

\* s.replace(sub, '')
Remove(s, sub) == RemoveFrom(s, sub, Find(s, sub))

\* str.endswith(suffix)
EndsWith(s, suffix) ==
    /\ Len(s) >= Len(suffix)
    /\ SubSeq(s, Len(s) - Len(suffix) + 1, Len(s)) = suffix

\* str.isalpha() / str.isdigit() on ASCII text
IsAlpha(s) ==
    s # "" /\ \A i \in 1..Len(s) : IndexIn(LowerLetters \o UpperLetters, Char(s, i)) # 0

IsDigit(s) ==
    s # "" /\ \A i \in 1..Len(s) : IndexIn(Digits, Char(s, i)) # 0

\* int(s) for a string of digits
RECURSIVE ToInt(_)
ToInt(s) ==
    IF s = "" THEN 0
    ELSE 10 * ToInt(SubSeq(s, 1, Len(s) - 1)) + (IndexIn(Digits, Char(s, Len(s))) - 1)

\* The k-th smallest element of a set of positions
Nth(S, k) == CHOOSE x \in S : Cardinality({y \in S : y < x}) = k - 1

\* The maximal runs of non-blank characters of s, in order: the units the
\* \s+ of the patterns separates.
WordsBetween(s, starts, ends) ==
    [k \in 1..Cardinality(starts) |-> SubSeq(s, Nth(starts, k), Nth(ends, k))]

\* str.split(): between the positions where a run of non-blank characters
\* begins and those where one ends
Words(s) ==
    WordsBetween(s,
        {i \in 1..Len(s) : Char(s, i) # " " /\ (i = 1 \/ Char(s, i - 1) = " ")},
        {i \in 1..Len(s) : Char(s, i) # " " /\ (i = Len(s) \/ Char(s, i + 1) = " ")})

\* ' '.join(words)
RECURSIVE Join(_)
Join(words) ==
    IF words = <<>> THEN ""
    ELSE IF Len(words) = 1 THEN words[1]
    ELSE words[1] \o " " \o Join(Tail(words))

---------------------------------------------------------------------------
(* Destinations: the alias table and the similarity score                   *)

\* Entries of KNOWN_DESTINATIONS, in the order of the dict.
KNOWN_DESTINATIONS ==
    << <<"lagos", "LOS">>, <<"los", "LOS">>, <<"london", "LHR">>,
       <<"lon", "LHR">>, <<"paris", "CDG">>, <<"la", "LAX">>,
       <<"dubai", "DXB">>, <<"delhi", "DEL">>, <<"delhi india", "DEL">> >>

Aliases == {KNOWN_DESTINATIONS[i][1] : i \in 1..Len(KNOWN_DESTINATIONS)}

\* KNOWN_DESTINATIONS[alias]
CodeOf(alias) ==
    KNOWN_DESTINATIONS[CHOOSE n \in 1..Len(KNOWN_DESTINATIONS) :
                           KNOWN_DESTINATIONS[n][1] = alias][2]

\* The blocks <<i, j, size>> with a[i .. i+size-1] = b[j .. j+size-1]
Blocks(a, b) ==
    {t \in (1..Len(a)) \X (1..Len(b)) \X (1..Len(a)) :
        /\ t[1] + t[3] - 1 <= Len(a)
        /\ t[2] + t[3] - 1 <= Len(b)
        /\ SubSeq(a, t[1], t[1] + t[3] - 1) = SubSeq(b, t[2], t[2] + t[3] - 1)}

\* SequenceMatcher.find_longest_match: the longest block, the earliest in
\* a and then in b among the longest; <<0, 0, 0>> without a common character
Longest(blocks) ==
    IF blocks = {} THEN <<0, 0, 0>>
    ELSE CHOOSE t \in blocks :
           \A u \in blocks :
             \/ t[3] > u[3]
             \/ t[3] = u[3] /\ t[1] < u[1]
             \/ t[3] = u[3] /\ t[1] = u[1] /\ t[2] <= u[2]

LongestMatch(a, b) == Longest(Blocks(a, b))

\* The number of matching characters SequenceMatcher.get_matching_blocks
\* adds up: the longest block m, then the same left and right of it.
RECURSIVE MatchesAround(_, _, _)
MatchesAround(a, b, m) ==
    IF m[3] = 0 THEN 0
    ELSE m[3]
         + MatchesAround(SubSeq(a, 1, m[1] - 1), SubSeq(b, 1, m[2] - 1),
                         LongestMatch(SubSeq(a, 1, m[1] - 1), SubSeq(b, 1, m[2] - 1)))
         + MatchesAround(SubSeq(a, m[1] + m[3], Len(a)), SubSeq(b, m[2] + m[3], Len(b)),
                         LongestMatch(SubSeq(a, m[1] + m[3], Len(a)),
                                      SubSeq(b, m[2] + m[3], Len(b))))

Matches(a, b) == MatchesAround(a, b, LongestMatch(a, b))

\* int(round(100 * 2.0 * M / T)), round() going to the even neighbour on a tie
RoundedPercent(matches, total) ==
    LET n == 200 * matches
        q == n \div total
        r == n % total
    IN  IF 2 * r < total THEN q
        ELSE IF 2 * r > total THEN q + 1
        ELSE IF q % 2 = 0 THEN q ELSE q + 1

\* fuzz.ratio
Ratio(s1, s2) ==
    IF s1 = "" \/ s2 = "" THEN 0
    ELSE RoundedPercent(Matches(s1, s2), Len(s1) + Len(s2))

\* utils.full_process: every character that is not a letter or a digit
\* becomes a blank, then lower case, then strip
RECURSIVE BlankRange(_, _, _)
BlankRange(s, lo, hi) ==
    IF lo > hi THEN ""
    ELSE IF lo = hi
         THEN (IF IsAlpha(Char(s, lo)) \/ IsDigit(Char(s, lo)) THEN Char(s, lo) ELSE " ")
    ELSE BlankRange(s, lo, (lo + hi) \div 2) \o BlankRange(s, ((lo + hi) \div 2) + 1, hi)

FullProcess(s) == Strip(Lower(BlankRange(s, 1, Len(s))))

\* The score of the processed query against every alias, in dict order
RECURSIVE Scores(_, _)
Scores(processed, i) ==
    IF i > Len(KNOWN_DESTINATIONS) THEN <<>>
    ELSE <<Ratio(processed, FullProcess(KNOWN_DESTINATIONS[i][1]))>>
            \o Scores(processed, i + 1)

\* The position of the best score, the first among equals
Best(scores) ==
    CHOOSE i \in 1..Len(scores) :
        \A j \in 1..Len(scores) :
            scores[i] > scores[j] \/ (scores[i] = scores[j] /\ i <= j)

\* process.extract(query, KNOWN_DESTINATIONS.keys(), limit=3,
\* scorer=fuzz.ratio)[0]: <<alias, score>> of the best score
TopScore(scores) == <<KNOWN_DESTINATIONS[Best(scores)][1], scores[Best(scores)]>>

BestMatch(query) == TopScore(Scores(FullProcess(query), 1))

\* Lines 134-148 for the normalized query q whose best match is top
ClosestTo(q, top) ==
    IF q \in Aliases THEN <<q, 100, CodeOf(q)>>
    ELSE IF top[2] >= 70 THEN <<top[1], top[2], CodeOf(top[1])>>
    ELSE <<None, 0, None>>

\* find_closest_destination: <<matched_city, confidence, airport_code>>
find_closest_destination(query) ==
    IF query = "" THEN <<None, 0, None>>
    ELSE ClosestTo(Strip(Lower(query)), BestMatch(Strip(Lower(query))))

\* Variant: the medium band starts at 90 and the high band is exact only.
Verdict_Strict(found) ==
    IF found[2] >= 100 THEN <<TRUE, found[3], None>>
    ELSE IF found[2] >= 90 THEN <<FALSE, found[3], found[1]>>
    ELSE <<FALSE, None, None>>

\* Lines 161-168 for found = (matched_city, confidence, airport_code)
Verdict(found) ==
    IF found[2] >= 90 THEN <<TRUE, found[3], None>>
    ELSE IF found[2] >= 70 THEN <<FALSE, found[3], found[1]>>
    ELSE <<FALSE, None, None>>

\* validate_destination: <<is_valid, airport_code, suggestion>>
validate_destination(destination) ==
    IF destination = "" THEN <<FALSE, None, None>>
    ELSE Verdict(find_closest_destination(destination))

---------------------------------------------------------------------------
(* Locations: the patterns of extract_locations_enhanced, matched on the    *)
(* words of the message                                                     *)

\* Every word from position a to position b is made of letters: the text
\* between them matches [a-zA-Z\s]+
AllAlpha(w, a, b) == \A n \in a..b : IsAlpha(w[n])

\* Where the lazy group that starts at word g ends: at the first word that
\* is the last of the text or is followed by a word that begins with one of
\* the terminators (\s+on matches the start of "online").  0: no match.
GroupEnd(w, g, terms) ==
    FirstOf({k \in g..Len(w) :
                /\ AllAlpha(w, g, k)
                /\ (k = Len(w) \/ \E t \in terms : StartsWith(w[k + 1], t))})

\* The words from position g to the end of the group, as the text captured
Group(w, g, terms) == Join(SubSeq(w, g, GroupEnd(w, g, terms)))

\* re.findall(pattern, text)[0] for a pattern of one group:
\* head \s+ mid... \s+ (group) terminator.  The head may end a longer word.
\* <<>> when the pattern does not match.
SingleMatch(w, heads, mid, terms) ==
    FirstMatch({i \in 1..Len(w) :
                   /\ \E h \in heads : EndsWith(w[i], h)
                   /\ i + Len(mid) + 1 <= Len(w)
                   /\ SubSeq(w, i + 1, i + Len(mid)) = mid
                   /\ GroupEnd(w, i + Len(mid) + 1, terms) # 0},
               <<>>, LAMBDA i : <<Group(w, i + Len(mid) + 1, terms)>>)

FromToTerms == {"on", "for", "in", "at"}

\* The positions of a "to" that can end the first group of a match that
\* begins with "from" at word i
Tos(w, i) ==
    {j \in (i + 2)..(Len(w) - 1) :
        /\ w[j] = "to"
        /\ AllAlpha(w, i + 1, j - 1)
        /\ GroupEnd(w, j + 1, FromToTerms) # 0}

\* The two groups of the match with "from" at word i and "to" at word j
FromToAt(w, i, j) ==
    <<Join(SubSeq(w, i + 1, j - 1)), Group(w, j + 1, FromToTerms)>>

\* re.findall(pattern, text)[0] for the pattern from X to Y (line 294).
FromToMatch(w) ==
    FirstMatch({i \in 1..Len(w) : EndsWith(w[i], "from") /\ Tos(w, i) # {}},
               <<>>, LAMBDA i : FromToAt(w, i, MinOf(Tos(w, i))))

TravelTerms == {"from", "on", "for", "tomorrow", "today"}

\* The patterns of one group, in the order of the list (lines 295-301):
\* <<heads, fixed words, terminators>>
SinglePatterns ==
    << <<{"flight", "flights"}, <<"to">>, TravelTerms>>,
       <<{"fly"}, <<"to">>, TravelTerms>>,
       <<{"hotel", "hotels"}, <<"in">>, {"for", "on", "from"}>>,
       <<{"stay"}, <<"in">>, {"for", "on"}>>,
       <<{"accommodation"}, <<"in">>, {"for", "on"}>>,
       <<{"to"}, <<>>, TravelTerms>>,
       <<{"in"}, <<>>, {"for", "on"}>> >>

\* The groups of the first of the patterns that matches, found being the
\* match of the pattern before them
RECURSIVE OrElse(_, _, _)
OrElse(found, w, patterns) ==
    IF found # <<>> \/ patterns = <<>> THEN found
    ELSE OrElse(SingleMatch(w, Head(patterns)[1], Head(patterns)[2], Head(patterns)[3]),
                w, Tail(patterns))

\* The groups of the first pattern of the list that matches.
FirstPattern(w) == OrElse(FromToMatch(w), w, SinglePatterns)

\* text with each noise word replaced by '' (lines 288-291)
RECURSIVE RemoveAll(_, _)
RemoveAll(text, noise) ==
    IF noise = <<>> \/ text = "" THEN text
    ELSE RemoveAll(Remove(text, Head(noise)), Tail(noise))

NoiseWords ==
    <<"cheap", "expensive", "direct", "nonstop", "return", "round trip",
      "one way", "business class", "economy", "first class">>

\* A captured group is kept when it has more than two characters and is
\* not a stop word (lines 311 and 316).
KeepLocation(loc) ==
    Len(Strip(loc)) > 2 /\ Strip(loc) \notin {"a", "the", "and", "or", "be"}

\* clean_loc.lower() of every kept group (lines 310-317)
RECURSIVE Cleaned(_)
Cleaned(groups) ==
    IF groups = <<>> THEN <<>>
    ELSE (IF KeepLocation(Head(groups)) THEN <<Lower(Strip(Head(groups)))>> ELSE <<>>)
            \o Cleaned(Tail(groups))

\* The locations without duplicates, in order (lines 320-328).
RECURSIVE Unique(_, _)
Unique(locs, seen) ==
    IF locs = <<>> THEN <<>>
    ELSE IF Head(locs) \in seen THEN Unique(Tail(locs), seen)
    ELSE <<Head(locs)>> \o Unique(Tail(locs), seen \cup {Head(locs)})

\* extract_locations_enhanced
extract_locations_enhanced(text) ==
    Unique(Cleaned(FirstPattern(Words(RemoveAll(text, NoiseWords)))), {})

---------------------------------------------------------------------------
(* Dates: datetime arithmetic and the patterns of extract_date_simple,      *)
(* extract_dates and extract_guests_rooms.  A date is <<year, month, day>>; *)
(* today is datetime.now(): its date and whether the clock reads midnight.  *)

\* calendar.monthrange(y, m)[1]
DaysInMonth(y, m) ==
    IF m = 2 THEN (IF (y % 4 = 0 /\ y % 100 # 0) \/ y % 400 = 0 THEN 29 ELSE 28)
    ELSE IF m \in {4, 6, 9, 11} THEN 30 ELSE 31

\* datetime(y, m, d) raises ValueError unless the day exists
ValidDate(y, m, d) == y \in 1..9999 /\ m \in 1..12 /\ d \in 1..DaysInMonth(y, m)

\* date + timedelta(days=n)
RECURSIVE AddDays(_, _)
AddDays(date, n) ==
    LET y == date[1]
        m == date[2]
        d == date[3]
        left == DaysInMonth(y, m) - d
    IN  IF n <= left THEN <<y, m, d + n>>
        ELSE AddDays(IF m = 12 THEN <<y + 1, 1, 1>> ELSE <<y, m + 1, 1>>, n - left - 1)

\* datetime.weekday(): Monday is 0
weekday(date) ==
    LET t == <<0, 3, 2, 5, 0, 3, 5, 1, 4, 6, 2, 4>>
        y == IF date[2] < 3 THEN date[1] - 1 ELSE date[1]
        sunday0 == (y + (y \div 4) - (y \div 100) + (y \div 400) + t[date[2]] + date[3]) % 7
    IN  (sunday0 + 6) % 7

\* str(n)
RECURSIVE IntToStr(_)
IntToStr(n) ==
    IF n < 10 THEN Char(Digits, n + 1)
    ELSE IntToStr(n \div 10) \o Char(Digits, (n % 10) + 1)

\* format(n, '0<width>d')
RECURSIVE ZeroPad(_, _)
ZeroPad(s, width) == IF Len(s) >= width THEN s ELSE ZeroPad("0" \o s, width)

\* strftime('%Y-%m-%d')
strftime(date) ==
    ZeroPad(IntToStr(date[1]), 4) \o "-" \o ZeroPad(IntToStr(date[2]), 2)
        \o "-" \o ZeroPad(IntToStr(date[3]), 2)

\* target_date < today, for a target_date at midnight
BeforeNow(date, today) ==
    \/ date[1] < today.date[1]
    \/ date[1] = today.date[1] /\ date[2] < today.date[2]
    \/ date[1] = today.date[1] /\ date[2] = today.date[2] /\ date[3] < today.date[3]
    \/ date = today.date /\ ~today.midnight

\* The digits a word ends with / begins with
RECURSIVE TrailingDigits(_)
TrailingDigits(s) ==
    IF s = "" \/ ~IsDigit(Char(s, Len(s))) THEN ""
    ELSE TrailingDigits(SubSeq(s, 1, Len(s) - 1)) \o Char(s, Len(s))

RECURSIVE LeadingDigits(_)
LeadingDigits(s) ==
    IF s = "" \/ ~IsDigit(Char(s, 1)) THEN ""
    ELSE Char(s, 1) \o LeadingDigits(SubSeq(s, 2, Len(s)))

\* s[-n:] and s[:n]
LastChars(s, n) == IF Len(s) <= n THEN s ELSE SubSeq(s, Len(s) - n + 1, Len(s))

FirstChars(s, n) == IF Len(s) <= n THEN s ELSE SubSeq(s, 1, n)

\* month_mapping, in the order of the alternation of the date patterns
MonthNames ==
    <<"january", "february", "march", "april", "may", "june", "july", "august",
      "september", "october", "november", "december",
      "jan", "feb", "mar", "apr", "may", "jun", "jul", "aug", "sep", "oct", "nov", "dec">>

month_mapping(name) ==
    LET i == CHOOSE n \in 1..Len(MonthNames) : MonthNames[n] = name
    IN  ((i - 1) % 12) + 1

\* (\d{1,2})(?:st|nd|rd|th)?\s+ at the end of a word: the day digits, or ""
OrdinalDay(word) ==
    LastChars(TrailingDigits(IF /\ \E x \in {"st", "nd", "rd", "th"} : EndsWith(word, x)
                                /\ TrailingDigits(SubSeq(word, 1, Len(word) - 2)) # ""
                             THEN SubSeq(word, 1, Len(word) - 2)
                             ELSE word), 2)

\* The first month name of the alternation the word begins with, or ""
MonthPrefix(word) ==
    FirstMatch({n \in 1..Len(MonthNames) : StartsWith(word, MonthNames[n])},
               "", LAMBDA n : MonthNames[n])

\* The month name the word ends with, or "": no name is the end of another
MonthSuffix(word) ==
    FirstMatch({n \in 1..Len(MonthNames) : EndsWith(word, MonthNames[n])},
               "", LAMBDA n : MonthNames[n])

\* Pattern <day> of <month> (line 428): <<day, month name>> or <<>>
DayOfMonthMatch(w) ==
    FirstMatch({i \in 1..(Len(w) - 2) :
                   /\ OrdinalDay(w[i]) # ""
                   /\ w[i + 1] = "of"
                   /\ MonthPrefix(w[i + 2]) # ""},
               <<>>, LAMBDA i : <<OrdinalDay(w[i]), MonthPrefix(w[i + 2])>>)

\* Pattern <month> <day> (line 429): <<month name, day>> or <<>>
MonthDayMatch(w) ==
    FirstMatch({i \in 1..(Len(w) - 1) :
                   MonthSuffix(w[i]) # "" /\ LeadingDigits(w[i + 1]) # ""},
               <<>>, LAMBDA i : <<MonthSuffix(w[i]), FirstChars(LeadingDigits(w[i + 1]), 2)>>)

\* The character at position i, "" outside the text
At(text, i) == IF i \in 1..Len(text) THEN Char(text, i) ELSE ""

IsSeparator(text, i) == At(text, i) \in {"-", "/"}

DigitAt(text, i) == IsDigit(At(text, i))

\* [-/](\d{1,2})[-/](\d{1,2}) after the year at position p, with a month
\* of two digits
TwoDigitMonth(text, p) ==
    /\ DigitAt(text, p + 5) /\ DigitAt(text, p + 6)
    /\ IsSeparator(text, p + 7) /\ DigitAt(text, p + 8)

\* The same with a month of one digit
OneDigitMonth(text, p) ==
    DigitAt(text, p + 5) /\ IsSeparator(text, p + 6) /\ DigitAt(text, p + 7)

\* The groups of the match at position p whose day begins at position d
IsoGroups(text, p, d) ==
    <<SubSeq(text, p, p + 3), SubSeq(text, p + 5, d - 2),
      IF DigitAt(text, d + 1) THEN SubSeq(text, d, d + 1) ELSE SubSeq(text, d, d)>>

\* Pattern yyyy-mm-dd (line 430): <<year, month, day>> or <<>>
IsoMatch(text) ==
    FirstMatch({p \in 1..Len(text) :
                   /\ \A k \in 0..3 : DigitAt(text, p + k)
                   /\ IsSeparator(text, p + 4)
                   /\ (TwoDigitMonth(text, p) \/ OneDigitMonth(text, p))},
               <<>>,
               LAMBDA p : IsoGroups(text, p, IF TwoDigitMonth(text, p) THEN p + 8 ELSE p + 7))

\* Lines 444-449: the date of this year, or of next year when it is past;
\* datetime() raises ValueError for a day the month does not have.
MonthDayDate(month, day, today) ==
    LET year == today.date[1]
    IN  IF ~ValidDate(year, month, day) THEN "ValueError"
        ELSE IF ~BeforeNow(<<year, month, day>>, today) THEN strftime(<<year, month, day>>)
        ELSE IF ~ValidDate(year + 1, month, day) THEN "ValueError"
        ELSE strftime(<<year + 1, month, day>>)

day_mapping ==
    <<"monday", "tuesday", "wednesday", "thursday", "friday", "saturday", "sunday">>

\* (day_num - today.weekday() + 7) % 7, a week when that is 0
DaysAhead(k) == IF k = 0 THEN 7 ELSE k

\* The day names of day_mapping the text holds, by position
NamedDays(text) == {n \in 1..7 : Contains(text, day_mapping[n])}

\* Lines 433-455: the date patterns in order, then the default
PatternDate(today, dayOfMonth, monthDay, iso) ==
    IF dayOfMonth # <<>>
    THEN MonthDayDate(month_mapping(dayOfMonth[2]), ToInt(dayOfMonth[1]), today)
    ELSE IF monthDay # <<>>
    THEN MonthDayDate(month_mapping(monthDay[1]), ToInt(monthDay[2]), today)
    ELSE IF iso # <<>>
    THEN ZeroPad(IntToStr(ToInt(iso[1])), 4) \o "-" \o ZeroPad(IntToStr(ToInt(iso[2])), 2)
            \o "-" \o ZeroPad(IntToStr(ToInt(iso[3])), 2)
    ELSE strftime(AddDays(today.date, 1))

\* Lines 401-418: the relative words, then the day names
WordDate(text, today, days) ==
    IF Contains(text, "tomorrow") THEN strftime(AddDays(today.date, 1))
    ELSE IF Contains(text, "next week") THEN strftime(AddDays(today.date, 7))
    ELSE IF Contains(text, "today") THEN strftime(today.date)
    ELSE IF days # {}
         THEN strftime(AddDays(today.date,
                  DaysAhead(((MinOf(days) - 1) - weekday(today.date) + 7) % 7)))
    ELSE PatternDate(today, DayOfMonthMatch(Words(text)), MonthDayMatch(Words(text)),
                     IsoMatch(text))

\* extract_date_simple: the date, or "ValueError" when datetime() raises
extract_date_simple(text, today) == WordDate(text, today, NamedDays(text))

\* re.findall(r'for\s+(\d+)\s+<unit>', text)[0], or "" without a match
ForCount(w, unit) ==
    FirstMatch({i \in 1..(Len(w) - 2) :
                   /\ EndsWith(w[i], "for")
                   /\ IsDigit(w[i + 1])
                   /\ StartsWith(w[i + 2], unit)},
               "", LAMBDA i : w[i + 1])

\* re.findall(r'(\d+)\s+<unit>', text)[0], or "" without a match
Count(w, unit) ==
    FirstMatch({i \in 1..(Len(w) - 1) :
                   TrailingDigits(w[i]) # "" /\ StartsWith(w[i + 1], unit)},
               "", LAMBDA i : TrailingDigits(w[i]))

\* The first group of the first pattern of the list that matches, or "";
\* found is the group of the pattern before them
RECURSIVE OrCount(_, _, _)
OrCount(found, w, patterns) ==
    IF found # "" \/ patterns = <<>> THEN found
    ELSE OrCount(IF Head(patterns)[1] = "for" THEN ForCount(w, Head(patterns)[2])
                 ELSE Count(w, Head(patterns)[2]),
                 w, Tail(patterns))

FirstCount(w, patterns) == OrCount("", w, patterns)

\* An uncaught exception leaves a call as a record that names it.
Raises(outcome) == "raises" \in DOMAIN outcome

duration_patterns ==
    << <<"for", "night">>, <<"for", "days">>, <<"", "night">>, <<"", "day">> >>

\* Lines 339-359 with the date of extract_date_simple, whether the text
\* names a hotel or a stay, and the number of nights it gives
DatesFrom(today, date, stay, nights) ==
    IF date = "ValueError" THEN [raises |-> "ValueError"]
    ELSE [date |-> date,
          check_in |-> IF stay THEN strftime(AddDays(today.date, 1)) ELSE None,
          check_out |-> IF ~stay THEN None
                        ELSE IF nights = "" THEN strftime(AddDays(today.date, 3))
                        ELSE strftime(AddDays(today.date, 1 + ToInt(nights)))]

\* extract_dates
extract_dates(text, today) ==
    DatesFrom(today, extract_date_simple(text, today),
              Contains(Lower(text), "hotel") \/ Contains(Lower(text), "stay"),
              FirstCount(Words(text), duration_patterns))

guest_patterns ==
    << <<"for", "guest">>, <<"for", "people">>, <<"for", "person">>,
       <<"", "guest">>, <<"", "people">>, <<"", "person">> >>

room_patterns == << <<"", "room">>, <<"for", "room">> >>

\* int(matches[0]), or the default 1 without a match
CountOr1(found) == IF found = "" THEN 1 ELSE ToInt(found)

\* extract_guests_rooms
extract_guests_rooms(text) ==
    [guests |-> CountOr1(FirstCount(Words(text), guest_patterns)),
     rooms |-> CountOr1(FirstCount(Words(text), room_patterns))]

---------------------------------------------------------------------------
(* extract_travel_info                                                      *)

\* One character of str.title(), given its positions among the small
\* letters and the capitals and whether a letter precedes it
TitleChar(c, l, u, inWord) ==
    IF l # 0 /\ ~inWord THEN Char(UpperLetters, l)
    ELSE IF u # 0 /\ inWord THEN Char(LowerLetters, u)
    ELSE c

\* str.title() of the characters lo..hi of s, by halves
RECURSIVE TitleRange(_, _, _)
TitleRange(s, lo, hi) ==
    IF lo > hi THEN ""
    ELSE IF lo = hi
         THEN TitleChar(Char(s, lo), IndexIn(LowerLetters, Char(s, lo)),
                        IndexIn(UpperLetters, Char(s, lo)),
                        lo > 1 /\ IsAlpha(Char(s, lo - 1)))
    ELSE TitleRange(s, lo, (lo + hi) \div 2) \o TitleRange(s, ((lo + hi) \div 2) + 1, hi)

\* f"Did you mean {location.title()}?" (lines 220, 231, 250, 261)
DidYouMean(city) == "Did you mean " \o TitleRange(city, 1, Len(city)) \o "?"

\* Lines 177-192, with the intent of lines 195-203
Defaults(intent) ==
    [intent |-> intent, destination |-> None, origin |-> None, date |-> None,
     check_in |-> None, check_out |-> None, budget |-> None,
     destination_code |-> None, origin_code |-> None, guests |-> 1, rooms |-> 1,
     error |-> None, suggestion |-> None, confidence |-> 100]

flight_keywords == {"flight", "fly", "airline", "airport", "ticket", "book flight", "flights"}

hotel_keywords == {"hotel", "stay", "accommodation", "lodging", "room", "book hotel", "hostel"}

\* Lines 198-203
Intent(text) ==
    IF \E k \in flight_keywords : Contains(text, k) THEN "flight"
    ELSE IF \E k \in hotel_keywords : Contains(text, k) THEN "hotel"
    ELSE IF Contains(text, "to ") \/ Contains(text, "from ") THEN "flight"
    ELSE "unknown"

\* Variant: an origin that does not resolve is an error, as a destination is.
OriginFrom_Strict(result, location, v) ==
    IF v[1] THEN [result EXCEPT !.origin = location, !.origin_code = v[2]]
    ELSE IF v[3] # None
         THEN [result EXCEPT !.origin = v[3], !.origin_code = v[2],
                             !.suggestion = DidYouMean(v[3]), !.confidence = 80]
    ELSE [result EXCEPT
            !.error = "I don't recognize '" \o location \o "'.",
            !.intent = "unknown"]

\* Lines 214-221 for v = validate_destination(location)
OriginFrom(result, location, v) ==
    IF v[1] THEN [result EXCEPT !.origin = location, !.origin_code = v[2]]
    ELSE IF v[3] # None
         THEN [result EXCEPT !.origin = v[3], !.origin_code = v[2],
                             !.suggestion = DidYouMean(v[3]), !.confidence = 80]
    ELSE result

\* Lines 225-235 for v = validate_destination(location)
DestinationFrom(result, location, v) ==
    IF v[1] THEN [result EXCEPT !.destination = location, !.destination_code = v[2]]
    ELSE IF v[3] # None
         THEN [result EXCEPT !.destination = v[3], !.destination_code = v[2],
                             !.suggestion = DidYouMean(v[3]), !.confidence = 80]
    ELSE [result EXCEPT
            !.error = "I don't recognize '" \o location
                        \o "'. Try a major city like London, Paris, or Dubai.",
            !.intent = "unknown"]

\* Lines 241-242, 246-247
FromLagos(result) == [result EXCEPT !.origin = "Lagos", !.origin_code = "LOS"]

\* Lines 240-254 for v = validate_destination(location)
\* (the bulleted city list of the error message is written on one line)
OnlyFrom(result, location, v) ==
    IF v[1]
    THEN [FromLagos(result) EXCEPT !.destination = location, !.destination_code = v[2]]
    ELSE IF v[3] # None
         THEN [FromLagos(result) EXCEPT
                 !.destination = v[3], !.destination_code = v[2],
                 !.suggestion = DidYouMean(v[3]), !.confidence = 80]
    ELSE [result EXCEPT
            !.error = "I don't recognize '" \o location
                        \o "'. Try cities like: London, Paris, Dubai, New York",
            !.intent = "unknown"]

\* Lines 258-265 for v = validate_destination(location)
CityFrom(result, location, v) ==
    IF v[3] # None
    THEN [result EXCEPT !.destination = v[3], !.suggestion = DidYouMean(v[3]),
                        !.confidence = 80]
    ELSE IF v[1] THEN [result EXCEPT !.destination = location]
    ELSE [result EXCEPT
            !.error = "I don't recognize '" \o location \o "' as a city.",
            !.intent = "unknown"]

\* Lines 268-271: no location in the message
NoLocation(result) ==
    IF result.intent = "flight"
    THEN [result EXCEPT
            !.error = "Where would you like to fly to? Example: 'Flights to London'"]
    ELSE IF result.intent = "hotel"
    THEN [result EXCEPT
            !.error = "Which city do you need a hotel in? Example: 'Hotels in Paris'"]
    ELSE result

\* Lines 209-271: the slots the locations fill
Located(result, locations) ==
    IF locations = <<>> THEN NoLocation(result)
    ELSE IF result.intent = "flight"
         THEN IF Len(locations) >= 2
              THEN DestinationFrom(
                       OriginFrom(result, locations[1], validate_destination(locations[1])),
                       locations[2], validate_destination(locations[2]))
              ELSE OnlyFrom(result, locations[1], validate_destination(locations[1]))
    ELSE CityFrom(result, locations[1], validate_destination(locations[1]))

\* Lines 274-281: result.update(date_info), result.update(guests_rooms);
\* an exception of extract_dates leaves the call
Updated(located, dates, counts) ==
    IF Raises(dates) THEN dates
    ELSE [located EXCEPT !.date = dates.date, !.check_in = dates.check_in,
                         !.check_out = dates.check_out,
                         !.guests = counts.guests, !.rooms = counts.rooms]

\* Lines 177-281 for text = text.lower().strip()
InfoOf(text, today) ==
    Updated(Located(Defaults(Intent(text)), extract_locations_enhanced(text)),
            extract_dates(text, today), extract_guests_rooms(text))

\* extract_travel_info: the result dict, or the exception the call raises
extract_travel_info(message, today) == InfoOf(Strip(Lower(message)), today)

---------------------------------------------------------------------------
(* The message handler: inputs, calls, specification                        *)

\* "flights from X to Y"
FromTo(x, y) == "flights from " \o x \o " to " \o y

\* The aliases of at least three letters
LongAliases == {a \in Aliases : Len(a) >= 3}

\* Messages a user sends: routes between aliases, misspelt and unknown
\* cities, messages without a location, dates that exist and dates that do
\* not, night, guest and room counts, mixed case and blanks, every hotel
\* keyword, today's and yesterday's month and day, and routes with an end
\* that is dropped.
Messages ==
    {FromTo(x, y) : x \in LongAliases, y \in LongAliases}
      \cup {"xyz123 flights", "hotels in pariss for 3 nights",
            "hotels in parsi for 3 nights", "Flights to London on february 30",
            "flights from mordor to paris", "flights from london to mordor",
            "flights from londn to dubai", "flights from dubia to paris tomorrow",
            "hotel in paris", "hotels in mordor", "flights to la", "flights to pariss",
            "flights to dubay on friday", "flights to mordor", "hello", "in paris",
            " Fly to Dubai next week ",
            "cheap flights from lagos to london on 5th of december",
            "stay in london for 2 nights for 2 guests", "book a room",
            "flights from mordor to rapis", "hotel in delh 2 rooms",
            "flights to paris on feb 29", "to london", "flights to paris 2026-12-25",
            "accommodation in paris", "lodging in london for 2 nights",
            "hostel in paris", "hotel in paris for 3 days",
            "hotel in paris for 0 nights", "Stay in Dubai 2 nights 3 guests",
            "room in dubai for 0 guests", "hotel in paris for 0 guests 0 rooms",
            "flights to paris on november 4", "flights to paris on november 3",
            "flights to paris on november 5", "flights to paris on 4th of november",
            "hotel in london on march 1", "flights from la to paris",
            "flights from paris to la", "flights from london to the",
            "flights to lagoss", "hotel in londn"}

\* datetime.now() when a message is handled: an ordinary day, the day
\* before and the day after a 29 February, and midnight sharp.
Todays ==
    {[date |-> <<2026, 11, 4>>, midnight |-> FALSE],
     [date |-> <<2028, 2, 28>>, midnight |-> FALSE],
     [date |-> <<2028, 3, 1>>, midnight |-> FALSE],
     [date |-> <<2026, 11, 4>>, midnight |-> TRUE]}

\* City names handed to validate_destination and find_closest_destination
Queries ==
    {"", "london", " Paris ", "la", "delhi india", "pariss", "londn", "parsi",
     "dubia", "delh", "prs", "mordor", "ngos", "rapis"}

\* The functions on these inputs, each call evaluated once
Locations == [m \in Messages |-> extract_locations_enhanced(Strip(Lower(m)))]

TravelInfo == [m \in Messages, t \in Todays |-> extract_travel_info(m, t)]

Validated == [q \in Queries |-> validate_destination(q)]

Closest == [q \in Queries |-> find_closest_destination(q)]

\* extract_travel_info(message) is called at the time today
Extract(message, today) ==
    /\ nlp' = [op |-> "extract", text |-> message, today |-> today,
               locations |-> Locations[message],
               result |-> TravelInfo[message, today]]
    /\ UNCHANGED <<cacheVars, threadVars, botVars>>

\* validate_destination(query) is called
Validate(query) ==
    /\ nlp' = [op |-> "validate", text |-> query, today |-> <<>>,
               locations |-> <<>>, result |-> Validated[query]]
    /\ UNCHANGED <<cacheVars, threadVars, botVars>>

\* find_closest_destination(query) is called
Resolve(query) ==
    /\ nlp' = [op |-> "resolve", text |-> query, today |-> <<>>,
               locations |-> <<>>, result |-> Closest[query]]
    /\ UNCHANGED <<cacheVars, threadVars, botVars>>

NextNLP ==
    \/ \E m \in Messages, t \in Todays : Extract(m, t)
    \/ \E q \in Queries : Validate(q)
    \/ \E q \in Queries : Resolve(q)

SpecNLP == Init /\ [][NextNLP]_vars

---------------------------------------------------------------------------
(* Claims about the message handler                                         *)

\* The latest call was extract_travel_info and it returned a result dict.
Returned == nlp.op = "extract" /\ ~Raises(nlp.result)

\* C14: every result of extract_travel_info that has error set has intent
\* unknown; a message with a flight or hotel keyword and no extractable
\* location gives intent unknown, error set and no destination.
C14_ErrorMeansUnknown ==
    Returned => (nlp.result.error # None => nlp.result.intent = "unknown")

\* C15: extract_travel_info never raises, whatever the message: a day the
\* month does not have is reported through the fields of a returned result.
C15_NeverRaises == nlp.op = "extract" => ~Raises(nlp.result)

\* C16: validate_destination is determined by the best similarity score s
\* of the query against the alias table: s >= 90 gives (true, code of the
\* best alias, absent); 70 <= s < 90 gives (false, code of the best alias,
\* the best alias); s < 70 gives (false, absent, absent), and
\* find_closest_destination then gives (absent, 0, absent).
C16_ScoreBands ==
    LET alias == BestMatch(nlp.text)[1]
        s == BestMatch(nlp.text)[2]
    IN  /\ nlp.op = "validate" =>
             nlp.result = IF s >= 90 THEN <<TRUE, CodeOf(alias), None>>
                          ELSE IF s >= 70 THEN <<FALSE, CodeOf(alias), alias>>
                          ELSE <<FALSE, None, None>>
        /\ (nlp.op = "resolve" /\ s < 70) => nlp.result = <<None, 0, None>>

\* A misspelt city was validated: not valid, with a code and a suggestion.
C16_Witness ==
    /\ nlp.op = "validate"
    /\ nlp.text \notin Aliases
    /\ BestMatch(nlp.text)[2] \in 70..89
    /\ nlp.result = <<FALSE, CodeOf(BestMatch(nlp.text)[1]), BestMatch(nlp.text)[1]>>

\* C17: find_closest_destination returns confidence exactly 100 with the
\* table's airport code whenever the normalized query is an alias or its
\* best similarity score is at least 90.
C17_HighScoreIsExact ==
    LET q == Strip(Lower(nlp.text))
        best == BestMatch(nlp.text)
    IN  (nlp.op = "resolve" /\ (q \in Aliases \/ best[2] >= 90)) =>
            /\ nlp.result[2] = 100
            /\ nlp.result[3] = CodeOf(best[1])

\* C18: for any two distinct aliases X and Y of at least three letters,
\* "flights from X to Y" gives intent flight, origin X with the code of X,
\* destination Y with the code of Y, no error, no suggestion and
\* confidence 100.
C18_RouteBetweenAliases ==
    \A x \in LongAliases, y \in LongAliases :
        (x # y /\ nlp.op = "extract" /\ nlp.text = FromTo(x, y)) =>
            /\ ~Raises(nlp.result)
            /\ nlp.result.intent = "flight"
            /\ nlp.result.origin = x /\ nlp.result.origin_code = CodeOf(x)
            /\ nlp.result.destination = y /\ nlp.result.destination_code = CodeOf(y)
            /\ nlp.result.error = None /\ nlp.result.suggestion = None
            /\ nlp.result.confidence = 100

\* The location candidates of the latest message (line 206)
Candidates == nlp.locations

\* The latest call returned for a flight message with two candidates.
TwoCandidateFlight ==
    /\ Returned
    /\ Intent(Strip(Lower(nlp.text))) = "flight"
    /\ Len(Candidates) >= 2

\* C19: in a flight message with two location candidates, a destination
\* candidate whose best score is under 70 gives error set and intent
\* unknown, whatever the origin resolved to; when the destination resolves
\* and only the origin candidate does not, the result has no error, intent
\* flight, and neither origin nor origin_code.
C19_UnresolvedEnds ==
    TwoCandidateFlight =>
        LET origin == BestMatch(Candidates[1])[2]
            destination == BestMatch(Candidates[2])[2]
        IN  /\ destination < 70 =>
                 (nlp.result.error # None /\ nlp.result.intent = "unknown")
            /\ (destination >= 70 /\ origin < 70) =>
                 /\ nlp.result.error = None /\ nlp.result.intent = "flight"
                 /\ nlp.result.origin = None /\ nlp.result.origin_code = None

\* A route whose origin alone does not resolve was handled: the flight
\* keeps its destination and has no origin.
C19_Witness ==
    /\ TwoCandidateFlight
    /\ BestMatch(Candidates[1])[2] < 70
    /\ BestMatch(Candidates[2])[2] >= 70
    /\ nlp.result.origin = None
    /\ nlp.result.destination = Candidates[2]
    /\ nlp.result.error = None

\* C20: a hotel message whose city candidate is a misspelling of an alias
\* (not itself an alias, best score at least 70) gives intent hotel, the
\* matched alias as destination, a suggestion, and confidence 80.
C20_HotelMisspelling ==
    ( /\ Returned
      /\ Intent(Strip(Lower(nlp.text))) = "hotel"
      /\ Candidates # <<>>
      /\ Candidates[1] \notin Aliases
      /\ BestMatch(Candidates[1])[2] >= 70 ) =>
        /\ nlp.result.intent = "hotel"
        /\ nlp.result.destination = BestMatch(Candidates[1])[1]
        /\ nlp.result.suggestion # None
        /\ nlp.result.confidence = 80

\* The text extract_travel_info works on (line 174)
Text == Strip(Lower(nlp.text))

\* The day after today, as the result formats it
Tomorrow == strftime(AddDays(nlp.today.date, 1))

\* The number of the first matching duration pattern, 2 without one
Nights ==
    IF FirstCount(Words(Text), duration_patterns) = "" THEN 2
    ELSE ToInt(FirstCount(Words(Text), duration_patterns))

\* C21: every result with intent hotel has check_in equal to tomorrow and
\* check_out equal to check_in + N days, N being the number of the first
\* matching duration pattern and 2 when no duration is given, for every
\* hotel keyword.
C21_HotelStay ==
    (Returned /\ nlp.result.intent = "hotel") =>
        /\ nlp.result.check_in = Tomorrow
        /\ nlp.result.check_out = strftime(AddDays(nlp.today.date, 1 + Nights))

\* The text holds none of the relative words and day names that come
\* before the date patterns (lines 401-418)
NoRelativeDay ==
    /\ ~Contains(Text, "tomorrow") /\ ~Contains(Text, "next week")
    /\ ~Contains(Text, "today") /\ NamedDays(Text) = {}

\* <<month, day>> of the month-day mention the date of the latest message
\* comes from, <<>> when it comes from something else
Mention ==
    IF nlp.op # "extract" \/ ~NoRelativeDay THEN <<>>
    ELSE IF DayOfMonthMatch(Words(Text)) # <<>>
    THEN <<month_mapping(DayOfMonthMatch(Words(Text))[2]),
           ToInt(DayOfMonthMatch(Words(Text))[1])>>
    ELSE IF MonthDayMatch(Words(Text)) # <<>>
    THEN <<month_mapping(MonthDayMatch(Words(Text))[1]),
           ToInt(MonthDayMatch(Words(Text))[2])>>
    ELSE <<>>

\* The calendar day <<month, day>> of this year is before today's date
PastThisYear(md) ==
    \/ md[1] < nlp.today.date[2]
    \/ md[1] = nlp.today.date[2] /\ md[2] < nlp.today.date[3]

\* C22: for a month-day mention without a year the returned date is in the
\* current year unless that calendar day is already past, and then in the
\* next year; a month-day equal to today's date stays in the current year.
C22_MonthDayYear ==
    (Returned /\ Mention # <<>>) =>
        nlp.result.date =
            strftime(<<IF PastThisYear(Mention) THEN nlp.today.date[1] + 1
                       ELSE nlp.today.date[1],
                       Mention[1], Mention[2]>>)

\* C23: in every result of extract_travel_info guests and rooms are at
\* least 1, and each is 1 when the message has no matching count pattern;
\* a stated count of 0 does not give a value below 1.
C23_CountsAtLeastOne ==
    Returned =>
        /\ nlp.result.guests >= 1 /\ nlp.result.rooms >= 1
        /\ FirstCount(Words(Text), guest_patterns) = "" => nlp.result.guests = 1
        /\ FirstCount(Words(Text), room_patterns) = "" => nlp.result.rooms = 1

\* C24: an abbreviation alias of the destination table given as the
\* destination of a flight message is resolved: intent flight, the table's
\* code of the abbreviation as destination_code, and no error.
C24_AbbreviationResolved ==
    \A a \in Aliases :
        (Len(a) = 2 /\ nlp.op = "extract" /\ Text = "flights to " \o a) =>
            /\ ~Raises(nlp.result)
            /\ nlp.result.intent = "flight"
            /\ nlp.result.destination_code = CodeOf(a)
            /\ nlp.result.error = None

\* The groups <<X, Y>> of the pattern from X to Y in the latest message,
\* <<>> when it does not match (lines 289-294, 304-305)
Route == FromToMatch(Words(RemoveAll(Text, NoiseWords)))

\* What a slot can hold when it is filled from the text of a group: the
\* text, or the alias it resolves to
Derived(group) ==
    {group} \cup (IF BestMatch(group)[2] >= 70 THEN {BestMatch(group)[1]} ELSE {})

\* The code a slot can hold when it is filled from the text of a group
CodesOf(group) ==
    IF BestMatch(group)[2] >= 70 THEN {CodeOf(BestMatch(group)[1])} ELSE {}

\* C28: in a flight message matching "from X to Y" the text X is used for
\* the origin slot only: the destination and its code never come from X,
\* also when Y is dropped as too short or as a stop word, and when X and Y
\* are the same string X still fills the origin.
C28_OriginGroupOnly ==
    (Returned /\ Intent(Text) = "flight" /\ Route # <<>>) =>
        /\ nlp.result.destination \in Derived(Route[1]) =>
               nlp.result.destination \in Derived(Route[2])
        /\ nlp.result.destination_code \in CodesOf(Route[1]) =>
               nlp.result.destination_code \in CodesOf(Route[2])
        /\ (Route[1] = Route[2] /\ nlp.result.destination \in Derived(Route[2])) =>
               nlp.result.origin \in Derived(Route[1])

\* A city slot and its code slot agree: both absent, or the city is an
\* alias of the table and the code is the table's code of it
Consistent(city, code) ==
    \/ city = None /\ code = None
    \/ city \in Aliases /\ code = CodeOf(city)

\* C29: in every result of extract_travel_info destination_code is present
\* exactly when destination is, and then destination is an alias of the
\* table whose code is destination_code; likewise origin and origin_code,
\* the default home city Lagos with LOS counting as consistent.
C29_CodesMatchCities ==
    Returned =>
        /\ Consistent(nlp.result.destination, nlp.result.destination_code)
        /\ \/ Consistent(nlp.result.origin, nlp.result.origin_code)
           \/ nlp.result.origin = "Lagos" /\ nlp.result.origin_code = "LOS"

---------------------------------------------------------------------------
(* AmadeusClient (src/api/amadeus_client.py): search_flights and the token *)
(* it needs, on top of the two cache tiers.  time.time() is the clock of   *)
(* the cache, in minutes.                                                  *)

\* Python's truth test of a cached value: None and the empty list are false
Truthy(value) == value # None /\ value # "empty"

\* get_cached_response as a function of the two tiers: the value returned
\* and the tiers it leaves (cache.py lines 67-104, no fault)
CacheGet(mem, rows, cache_key, t) ==
    IF cache_key \in DOMAIN mem /\ MemFresh(mem[cache_key], t)
    THEN [data |-> mem[cache_key].data, mem |-> mem, rows |-> rows]
    ELSE LET mem1 == IF cache_key \in DOMAIN mem THEN MemDel(mem, cache_key) ELSE mem
             found == RowsByKey(rows, cache_key)
         IN  IF found = {} THEN [data |-> None, mem |-> mem1, rows |-> rows]
             ELSE LET cache_entry == CHOOSE r \in found : TRUE IN
                  IF RowFresh(cache_entry, t)
                  THEN [data |-> JsonLoads(cache_entry.response_data),
                        mem |-> MemStore(mem1, cache_key,
                                         JsonLoads(cache_entry.response_data),
                                         cache_entry.expires_at, cache_entry.ver),
                        rows |-> rows]
                  ELSE [data |-> None, mem |-> mem1, rows |-> rows \ {cache_entry}]

\* save_to_cache as a function of the two tiers (cache.py lines 106-159);
\* fault = "commit": the durable write raises and only tier 1 is written
CachePut(mem, rows, provider, cache_key, data, cache_type, t, fault) ==
    [mem |-> MemStore(mem, cache_key, data, t + TTL(cache_type), 0),
     rows |-> IF fault # "none" THEN rows
              ELSE Upsert(rows, cache_key, provider, data, t + TTL(cache_type), 0)]

\* token_params (line 39) and search_params (lines 99-104)
TokenParams == <<<<"client_id", "id">>>>

SearchParams(route) ==
    <<<<"origin", route[1]>>, <<"destination", route[2]>>,
      <<"departure_date", route[3]>>, <<"adults", 1>>>>

\* origin, destination and departure_date of the searches made
Routes == {<<"LHR", "CDG", "2026-11-05">>, <<"LOS", "CDG", "2026-11-05">>}

FlightKeys == [route \in Routes |-> generate_cache_key("amadeus_flights", SearchParams(route))]

TokenKey == generate_cache_key("amadeus_token", TokenParams)

\* Lines 48-86 of _get_access_token: the POST and what follows it.
\* status is the answer to the POST: "200", "401" or "timeout".
RequestToken(tiers, t, status) ==
    IF status = "200"
    THEN [token |-> "tok", token_expiry |-> t + 25, requested |-> TRUE,
          tiers |-> CachePut(tiers.mem, tiers.rows, "amadeus_token", TokenKey,
                             "d1", "token", t, "none")]
    ELSE [token |-> None, token_expiry |-> 0, requested |-> TRUE, tiers |-> tiers]

\* Lines 38-46 for got = the cached token entry: the entry holds the token
\* and its expiry, written at line 65 as the time of the save plus 25
\* minutes, which is also the expiry of the entry
CachedToken(got, t, status) ==
    IF Truthy(got.data)
    THEN [token |-> "tok", token_expiry |-> got.mem[TokenKey].expires_at,
          requested |-> FALSE, tiers |-> got]
    ELSE RequestToken(got, t, status)

\* AmadeusClient._get_access_token: the token returned (None when the
\* request fails, and then self.token keeps its value), the new
\* token_expiry, whether a token was requested, and the tiers
get_access_token(client, tiers, t, status) ==
    IF client.token # None /\ t < client.token_expiry
    THEN [token |-> client.token, token_expiry |-> client.token_expiry,
          requested |-> FALSE, tiers |-> tiers]
    ELSE CachedToken(CacheGet(tiers.mem, tiers.rows, TokenKey, t), t, status)

\* _format_flight_data of a 200 answer, _get_mock_flights otherwise
\* (lines 140-166); api is "offers", "no offers", "500" or "timeout"
FlightsOf(api) ==
    IF api = "offers" THEN "offers" ELSE IF api = "no offers" THEN "empty" ELSE "mock"

\* Lines 113-166 for tk = the outcome of _get_access_token
Fetched(client, route, tk, t, api, fault) ==
    [returned |-> IF Truthy(tk.token) THEN FlightsOf(api) ELSE "mock",
     token |-> IF tk.token = None THEN client.token ELSE tk.token,
     token_expiry |-> IF tk.token = None THEN client.token_expiry ELSE tk.token_expiry,
     token_request |-> tk.requested,
     api_call |-> Truthy(tk.token),
     saved |-> TRUE,
     tiers |-> CachePut(tk.tiers.mem, tk.tiers.rows, "amadeus_flights",
                        FlightKeys[route],
                        IF Truthy(tk.token) THEN FlightsOf(api) ELSE "mock",
                        "flight", t, fault)]

\* Variant: any cached list, the empty one included, is served.
Searched_NotNone(client, route, got, t, status, api, fault) ==
    IF got.data # None
    THEN [returned |-> got.data, token |-> client.token,
          token_expiry |-> client.token_expiry, token_request |-> FALSE,
          api_call |-> FALSE, saved |-> FALSE, tiers |-> got]
    ELSE Fetched(client, route, get_access_token(client, got, t, status), t, api, fault)

\* Lines 106-166 for got = the outcome of the lookup of line 107
Searched(client, route, got, t, status, api, fault) ==
    IF Truthy(got.data)
    THEN [returned |-> got.data, token |-> client.token,
          token_expiry |-> client.token_expiry, token_request |-> FALSE,
          api_call |-> FALSE, saved |-> FALSE, tiers |-> got]
    ELSE Fetched(client, route, get_access_token(client, got, t, status), t, api, fault)

\* The record of a completed call
SearchCall(route, t, out) ==
    [route |-> route, at |-> t, returned |-> out.returned,
     token_request |-> out.token_request, api_call |-> out.api_call]

\* The client after a call: its token, the call, the fetch that came
\* before it for the same route, and the fetch the call made if it did not
\* serve a cached list
Called(client, route, t, out) ==
    [token |-> out.token, token_expiry |-> out.token_expiry,
     call |-> SearchCall(route, t, out),
     before |-> IF route \in DOMAIN client.fetched THEN client.fetched[route]
                ELSE NoFetch,
     fetched |-> [r \in DOMAIN client.fetched \cup {route} |->
                    IF r = route /\ out.saved
                    THEN [at |-> t, returned |-> out.returned]
                    ELSE IF r \in DOMAIN client.fetched THEN client.fetched[r]
                    ELSE NoFetch]]

Finish(route, out) ==
    /\ amadeus' = Called(amadeus, route, now, out)
    /\ memory_cache' = out.tiers.mem
    /\ db' = out.tiers.rows

\* AmadeusClient.search_flights(origin, destination, departure_date).
\* status and api are the answers of the token endpoint and of the flight
\* API if they are asked; fault = "commit": the durable save of the list
\* raises.
search_flights(route, status, api, fault) ==
    /\ Finish(route, Searched(amadeus, route,
                              CacheGet(memory_cache, db, FlightKeys[route], now),
                              now, status, api, fault))
    /\ UNCHANGED <<now, last, nput, nticks, threadVars, nlp, chat, scheduler>>

SearchFlights ==
    \E route \in Routes, status \in {"200", "401", "timeout"},
       api \in {"offers", "no offers", "500", "timeout"},
       fault \in {"none", "commit"} :
        search_flights(route, status, api, fault)

\* Time passes between two searches: the lifetime of a token, a minute less
\* than the lifetime of a flight entry, or that lifetime, for as long as
\* the lifetimes of a flight entry and of a token together.
Elapse ==
    \E d \in {TTL("token"), TTL("flight") - 1, TTL("flight")} :
        /\ now + d <= TTL("flight") + TTL("token")
        /\ now' = now + d
        /\ UNCHANGED <<memory_cache, db, last, nput, nticks, threadVars, nlp, botVars>>

NextFlights == SearchFlights \/ Elapse

SpecFlights == Init /\ [][NextFlights]_vars

\* C25: when search_flights has fetched and returned a list for a route,
\* whatever list it is, a later call for the same route less than 60
\* minutes after it returns that list without requesting a token and
\* without calling the flight API.
C25_SecondCallCached ==
    (amadeus.before # NoFetch /\ amadeus.call.at - amadeus.before.at < 60)
        => /\ amadeus.call.returned = amadeus.before.returned
           /\ ~amadeus.call.token_request
           /\ ~amadeus.call.api_call

---------------------------------------------------------------------------
(* The bot's message handler (src/bot.py handle_message) with the flight   *)
(* and hotel handlers it routes to, for one user who has set no            *)
(* preferences: get_user_home_city returns 'Lagos' and get_user_budget     *)
(* returns None.                                                           *)

\* Messages the user sends: a flight request whose origin does not resolve,
\* a city name, a complete flight request, a hotel request, numbers, and a
\* hotel request for an unknown city.
BotMessages ==
    {"flights from mordor to paris", "London", "flights from london to paris",
     "hotel in paris", "2", "4", "hotels in mordor"}

\* datetime.now() of the conversation
BotToday == [date |-> <<2026, 11, 4>>, midnight |-> FALSE]

\* extract_travel_info on these messages, each call evaluated once
BotInfo == [m \in BotMessages |-> extract_travel_info(m, BotToday)]

\* int(user_message.strip()) returns (bot.py line 141)
IsInt(text) == IsDigit(Strip(text))

\* validate_destination on the message taken as a city name
CityOf == [m \in BotMessages |-> validate_destination(Strip(Lower(m)))]

\* len() of a flight list: the five mock flights, or the two offers of
\* the 200 answers of the model
Size(flights) ==
    CASE flights = "mock" -> 5
      [] flights = "offers" -> 2
      [] OTHER -> 0

\* len() of the list _get_mock_hotels returns for any city
MockHotels(city_name) == 3

Min(a, b) == IF a < b THEN a ELSE b

\* SessionManager.get_active_session: the context of the row, None when
\* there is no row or it has expired
get_active_session(row, t) ==
    IF row.type = None THEN NoSession
    ELSE IF row.expires_at < t THEN NoSession
    ELSE row

\* SessionManager.save_search_context(user_id, first_name, 'flight', data)
save_search_context(search_type, flights, search_info, t) ==
    [type |-> search_type, flights |-> flights, search_info |-> search_info,
     expires_at |-> t + 30]

\* The conversation after a message has been handled
Replied(c, text, handled_by, reply, shown, search, selected) ==
    [c EXCEPT !.prev = c.last,
              !.last = Reply(text, handled_by, reply, shown, search, selected)]

\* handle_flight_selection (flight_handlers.py lines 393-470)
handle_flight_selection(c, text, t) ==
    IF get_active_session(c.session, t).type # "flight"
    THEN Replied(c, text, "handle_flight_selection", "no active flight search",
                 0, <<>>, 0)
    ELSE IF ~IsInt(text)
    THEN Replied(c, text, "handle_flight_selection", "invalid input", 0, <<>>, 0)
    ELSE IF ToInt(Strip(text)) < 1 \/ ToInt(Strip(text)) > Size(c.session.flights)
    THEN Replied(c, text, "handle_flight_selection", "invalid selection", 0, <<>>, 0)
    ELSE [Replied(c, text, "handle_flight_selection", "flight selected", 0,
                  c.session.search_info, ToInt(Strip(text)))
            EXCEPT !.session = NoSession]

\* handle_hotel_selection (hotel_handlers.py lines 127-188); the KeyError
\* of line 150 is not caught
handle_hotel_selection(c, text, t) ==
    IF get_active_session(c.session, t).type # "hotel"
    THEN Replied(c, text, "handle_hotel_selection", "no active hotel search",
                 0, <<>>, 0)
    ELSE IF ~IsInt(text) \/ ToInt(Strip(text)) < 1 \/ ToInt(Strip(text)) > 5
    THEN Replied(c, text, "handle_hotel_selection", "invalid input", 0, <<>>, 0)
    ELSE IF c.user_hotel_data = NoHotels
    THEN Replied(c, text, "handle_hotel_selection", "raises KeyError", 0, <<>>, 0)
    ELSE IF ToInt(Strip(text)) > c.user_hotel_data.hotels
    THEN Replied(c, text, "handle_hotel_selection", "invalid selection", 0, <<>>, 0)
    ELSE [Replied(c, text, "handle_hotel_selection", "hotel selected", 0,
                  c.user_hotel_data.search_info, ToInt(Strip(text)))
            EXCEPT !.user_hotel_data = NoHotels]

\* handle_hotel_request (hotel_handlers.py lines 10-125) for travel_info =
\* extract_travel_info(text); search_hotels returns the mock list
handle_hotel_request(c, text, travel_info) ==
    IF travel_info.intent # "hotel" /\ ~Contains(text, "/hotels") THEN c
    ELSE IF travel_info.destination = None
    THEN Replied(c, text, "handle_hotel_request", "where to stay", 0, <<>>, 0)
    ELSE [Replied(c, text, "handle_hotel_request", "hotels shown",
                  Min(MockHotels(travel_info.destination), 5),
                  <<travel_info.destination>>, 0)
            EXCEPT !.user_hotel_data =
                       [hotels |-> MockHotels(travel_info.destination),
                        search_info |-> <<travel_info.destination>>]]

\* Lines 134-137 and 140 of handle_flight_request: the arguments of
\* search_flights (date is always set by extract_travel_info)
RouteOf(travel_info) ==
    <<travel_info.origin_code, travel_info.destination_code, travel_info.date>>

\* handle_flight_request up to line 128: the reply that ends the request
\* before any search, "" when the request goes on to search
Unsearched(travel_info, text) ==
    IF travel_info.error # None THEN "error"
    ELSE IF travel_info.intent # "flight" /\ ~Contains(text, "/flights") THEN "none"
    ELSE IF travel_info.destination = None THEN "where to fly"
    ELSE IF travel_info.destination_code = None \/ Len(travel_info.destination_code) # 3
    THEN "unknown destination"
    ELSE IF travel_info.origin = None THEN "ask origin"
    ELSE IF travel_info.origin_code = None \/ Len(travel_info.origin_code) # 3
    THEN "unknown origin"
    ELSE ""

\* Lines 100-116: the destination is kept in context.user_data
Pending(c, travel_info) ==
    [c EXCEPT !.pending_destination = travel_info.destination,
              !.pending_destination_code = travel_info.destination_code,
              !.pending_date = travel_info.date]

\* Lines 142-252 for flights_data = the list search_flights returned
Shown(c, text, travel_info, flights_data, t) ==
    IF ~Truthy(flights_data)
    THEN Replied(c, text, "handle_flight_request", "no flights", 0,
                 RouteOf(travel_info), 0)
    ELSE [Replied(c, text, "handle_flight_request", "flights shown",
                  Min(Size(flights_data), 5), RouteOf(travel_info), 0)
            EXCEPT !.session = save_search_context("flight", flights_data,
                                                   RouteOf(travel_info), t),
                   !.pending_destination = None,
                   !.pending_destination_code = None,
                   !.pending_date = None]

\* handle_flight_request (flight_handlers.py lines 15-278) for travel_info
\* = extract_travel_info(text)
handle_flight_request(text, travel_info, status, api) ==
    IF Unsearched(travel_info, text) = ""
    THEN /\ Finish(RouteOf(travel_info),
                   Searched(amadeus, RouteOf(travel_info),
                            CacheGet(memory_cache, db,
                                     FlightKeys[RouteOf(travel_info)], now),
                            now, status, api, "none"))
         /\ chat' = Shown(chat, text, travel_info, amadeus'.call.returned, now)
    ELSE /\ chat' = IF Unsearched(travel_info, text) = "none" THEN chat
                    ELSE IF Unsearched(travel_info, text) = "ask origin"
                    THEN Replied(Pending(chat, travel_info), text,
                                 "handle_flight_request", "ask origin", 0, <<>>, 0)
                    ELSE Replied(chat, text, "handle_flight_request",
                                 Unsearched(travel_info, text), 0, <<>>, 0)
         /\ UNCHANGED <<amadeus, memory_cache, db>>

\* The session type that sends a number to a selection handler
\* (bot.py lines 140-153)
Selecting(c, text, t) ==
    IF IsInt(text) THEN get_active_session(c.session, t).type ELSE None

\* handle_message (bot.py lines 131-185).  It is the handler of every text
\* that is not a command; handle_origin_response is called from nowhere.
handle_message(text, status, api) ==
    /\ ~StartsWith(text, "/")
    /\ IF Selecting(chat, text, now) = "flight"
       THEN /\ chat' = handle_flight_selection(chat, text, now)
            /\ UNCHANGED <<amadeus, memory_cache, db>>
       ELSE IF Selecting(chat, text, now) = "hotel"
       THEN /\ chat' = handle_hotel_selection(chat, text, now)
            /\ UNCHANGED <<amadeus, memory_cache, db>>
       ELSE IF BotInfo[text].error # None
       THEN /\ chat' = Replied(chat, text, "handle_message", "error", 0, <<>>, 0)
            /\ UNCHANGED <<amadeus, memory_cache, db>>
       ELSE IF BotInfo[text].intent = "flight"
       THEN handle_flight_request(text, BotInfo[text], status, api)
       ELSE IF BotInfo[text].intent = "hotel"
       THEN /\ chat' = handle_hotel_request(chat, text, BotInfo[text])
            /\ UNCHANGED <<amadeus, memory_cache, db>>
       ELSE /\ chat' = Replied(chat, text, "handle_message", "help", 0, <<>>, 0)
            /\ UNCHANGED <<amadeus, memory_cache, db>>
    /\ UNCHANGED <<now, last, nput, nticks, threadVars, nlp, scheduler>>

Message ==
    \E text \in BotMessages, status \in {"200", "401"}, api \in {"offers", "no offers"} :
        handle_message(text, status, api)

NextBot == Message \/ Elapse

SpecBot == Init /\ [][NextBot]_vars

\* C26: when a hotel search has shown numbered results and the user's next
\* message is a number between 1 and the number of hotels shown, the
\* message is handled by handle_hotel_selection, which confirms the hotel
\* at that position of the results of that search.
C26_HotelNumberSelects ==
    (/\ chat.prev.reply = "hotels shown"
     /\ IsInt(chat.last.text)
     /\ ToInt(Strip(chat.last.text)) \in 1..chat.prev.shown)
        => /\ chat.last.handled_by = "handle_hotel_selection"
           /\ chat.last.reply = "hotel selected"
           /\ chat.last.search = chat.prev.search
           /\ chat.last.selected = ToInt(Strip(chat.last.text))

\* The request of the message before the latest one, which the bot
\* answered by asking for the origin
Asked == BotInfo[chat.prev.text]

\* C27: a flight request with a resolved destination and no origin, from a
\* user without a home city, stores the destination as pending and asks
\* for the origin; when the user's next message names a city, it is handled
\* by handle_origin_response, the search runs from that city to the stored
\* destination, and no destination is pending afterwards.
C27_OriginAnswered ==
    /\ (/\ chat.last.handled_by = "handle_flight_request"
        /\ BotInfo[chat.last.text].destination_code # None
        /\ BotInfo[chat.last.text].origin = None)
           => /\ chat.last.reply = "ask origin"
              /\ chat.pending_destination = BotInfo[chat.last.text].destination
    /\ (chat.prev.reply = "ask origin" /\ CityOf[chat.last.text][1])
           => /\ chat.last.handled_by = "handle_origin_response"
              /\ chat.last.search = <<CityOf[chat.last.text][2],
                                      Asked.destination_code, Asked.date>>
              /\ chat.pending_destination = None

---------------------------------------------------------------------------
(* CacheScheduler (src/utils/cache_scheduler.py): the caller's thread      *)
(* starts and stops the scheduler, each cleanup thread runs _cleanup_loop. *)
(* The threads share self.running without a lock; a step of the model is   *)
(* one read or write of it, or one call.                                   *)

\* threading.Thread(target=self._cleanup_loop, ...).start(): the thread is
\* about to test the loop condition
NewThread == [pc |-> "test", stopped |-> FALSE, late |-> FALSE]

\* start_cleanup_scheduler (lines 24-42)
start_cleanup_scheduler ==
    /\ scheduler.caller = "idle"
    /\ IF scheduler.running
       THEN scheduler' =
                [scheduler EXCEPT !.call = [op |-> "start", was_running |-> TRUE,
                                            created |-> FALSE]]
       ELSE /\ Len(scheduler.threads) < MaxThreads
            /\ scheduler' =
                   [scheduler EXCEPT
                      !.running = TRUE,
                      !.threads = Append(@, NewThread),
                      !.cleanup_thread = Len(scheduler.threads) + 1,
                      !.call = [op |-> "start", was_running |-> FALSE,
                                created |-> TRUE]]
    /\ UNCHANGED <<cacheVars, threadVars, nlp, amadeus, chat>>

\* stop_scheduler, lines 70-72: running is cleared and the caller waits in
\* join(timeout=5) if a thread was ever started
stop_scheduler ==
    /\ scheduler.caller = "idle"
    /\ scheduler' =
           [scheduler EXCEPT
              !.running = FALSE,
              !.caller = IF scheduler.cleanup_thread # 0 THEN "join" ELSE "idle",
              !.call = [op |-> "stop", was_running |-> scheduler.running,
                        created |-> FALSE]]
    /\ UNCHANGED <<cacheVars, threadVars, nlp, amadeus, chat>>

\* stop_scheduler, lines 72-73: join returns, because the thread has ended
\* or because five seconds have passed with the thread in its sleep of
\* interval_hours, and stop_scheduler returns
Joined ==
    /\ scheduler.caller = "join"
    /\ scheduler.threads[scheduler.cleanup_thread].pc \in {"done", "sleep"}
    /\ scheduler' =
           [scheduler EXCEPT !.caller = "idle",
                             !.threads[scheduler.cleanup_thread].stopped = TRUE]
    /\ UNCHANGED <<cacheVars, threadVars, nlp, amadeus, chat>>

\* _cleanup_loop, line 46: while self.running
LoopTest(i) ==
    /\ scheduler.threads[i].pc = "test"
    /\ scheduler' =
           [scheduler EXCEPT
              !.threads[i].pc = IF scheduler.running THEN "sleep" ELSE "done"]
    /\ UNCHANGED <<cacheVars, threadVars, nlp, amadeus, chat>>

\* _cleanup_loop, lines 47-66: time.sleep returns and cleanup_cache() is
\* called, which is cleanup_expired_cache of the cache manager; the loop
\* then tests its condition again
LoopCleanup(i) ==
    /\ scheduler.threads[i].pc = "sleep"
    /\ scheduler' =
           [scheduler EXCEPT
              !.threads[i].pc = "test",
              !.threads[i].late = @ \/ scheduler.threads[i].stopped]
    /\ db' = db \ RowsExpired(db, now)
    /\ memory_cache' = MemPrune(memory_cache, now)
    /\ last' = Call("sweep", None, <<>>, None, None, 0, "none", None,
                    Cardinality(RowsExpired(db, now)), "", FALSE, "")
    /\ UNCHANGED <<now, nput, nticks, threadVars, nlp, amadeus, chat>>

NextScheduler ==
    \/ start_cleanup_scheduler
    \/ stop_scheduler
    \/ Joined
    \/ \E i \in 1..MaxThreads : i <= Len(scheduler.threads) /\ LoopTest(i)
    \/ \E i \in 1..MaxThreads : i <= Len(scheduler.threads) /\ LoopCleanup(i)

SpecScheduler == Init /\ [][NextScheduler]_vars

\* The cleanup loops that have not ended
ActiveLoops ==
    {i \in 1..Len(scheduler.threads) : scheduler.threads[i].pc # "done"}

\* C30: whatever start_cleanup_scheduler and stop_scheduler calls have been
\* made, at most one cleanup loop is active; a start while the scheduler is
\* running starts nothing; and a loop that stop_scheduler has stopped makes
\* no cleanup_cache call after stop_scheduler has returned, also when the
\* scheduler is started again while that loop's thread is still sleeping.
C30_OneCleanupLoop ==
    /\ scheduler.caller = "idle" => Cardinality(ActiveLoops) <= 1
    /\ scheduler.call.was_running => ~scheduler.call.created
    /\ \A i \in 1..Len(scheduler.threads) : ~scheduler.threads[i].late

====
